---- MODULE Spec2Model ----
(***************************************************************************)
(* Model of the multi-check execution engine of marine_qc                  *)
(* (src/src/marine_qc/multiple_checks.py): one invocation of               *)
(* _do_multiple_check, from the validation of return_method, through       *)
(* preprocessing, the resolution of the check descriptors and the          *)
(* group-by-group, check-by-check engine loop, to the returned Flag Matrix.*)
(***************************************************************************)
EXTENDS Integers, Sequences, FiniteSets, TLC

(***************************************************************************)
(* Bounds of the model                                                     *)
(***************************************************************************)
MaxRows == 3
MaxArgs == 2

(***************************************************************************)
(* Flag vocabulary (auxiliary.py)                                          *)
(***************************************************************************)
passed == 0
failed == 1
untestable == 2
untested == 3

Flags == {passed, failed, untestable, untested}

\* A missing value (NaN) of a column; the present values are 1 and 2.
NaN == -1
Values == {NaN, 1, 2}

\* Values of the grouping column "k"; "NaN" is a missing key.
Keys == {"A", "B", "NaN"}

\* The columns of the Observation Tables of the model: the grouping column,
\* the observed value, and the position and time of the report.
Columns == {"k", "v", "lat", "lon", "date"}

ReturnMethods == {"all", "passed", "failed"}

(***************************************************************************)
(* Sequence helpers                                                        *)
(***************************************************************************)
Range(s) == {s[i] : i \in DOMAIN s}

RECURSIVE SeqFilter(_, _)
\* the elements of s that are in the set keep, in the order of s
SeqFilter(s, keep) ==
    IF s = <<>> THEN <<>>
    ELSE IF Head(s) \in keep THEN <<Head(s)>> \o SeqFilter(Tail(s), keep)
         ELSE SeqFilter(Tail(s), keep)

RECURSIVE Unique(_)
\* the distinct elements of s in first-seen order
Unique(s) ==
    IF s = <<>> THEN <<>>
    ELSE <<Head(s)>> \o Unique(SeqFilter(Tail(s), Range(s) \ {Head(s)}))

Reverse(s) == [i \in 1..Len(s) |-> s[Len(s) + 1 - i]]

(***************************************************************************)
(* Observation Table: an index (row identifiers, in row order) and the     *)
(* cells of its columns, addressed by row identifier (label based, as      *)
(* pandas .loc).                                                           *)
(***************************************************************************)
Index(data) == data.index

RowIds(data) == Range(data.index)

\* data[cname].loc[idx]: the slice of a column for the labels idx, in the
\* order of idx
ColumnLoc(data, cname, idx) == [i \in 1..Len(idx) |-> data.cell[idx[i]][cname]]

\* data[cname]: a Series, the column with the table's index
Column(data, cname) ==
    [kind |-> "series", index |-> data.index,
     val |-> [r \in RowIds(data) |-> data.cell[r][cname]]]

\* v.loc[idx] of a Series
SeriesLoc(s, idx) ==
    [kind |-> "series", index |-> idx, val |-> [r \in Range(idx) |-> s.val[r]]]

\* the values of a Series in the order of its index
SeriesValues(s) == [i \in 1..Len(s.index) |-> s.val[s.index[i]]]

\* a literal argument value (a number is a one-element tuple, limits a pair)
Literal(t) == [kind |-> "literal", index |-> <<>>, val |-> t]

\* isinstance(v, pd.Series)
IsSeries(v) == v.kind = "series"

(***************************************************************************)
(* The callables the configuration can name.  Their code is not part of    *)
(* the engine (spec 1, "external collaborators"); each is modelled by its  *)
(* signature and by the flags it returns for the rows it is called with.   *)
(***************************************************************************)
Param(n, k, d) == [name |-> n, kind |-> k, hasDefault |-> d]

\* the signatures of the sample callables of the validator tests, and of
\* their variants with a variadic positional parameter
SampleSig(fname) ==
    CASE fname = "sample_func_short" ->
           [params |-> << Param("a", "POSITIONAL_OR_KEYWORD", FALSE) >>]
      [] fname = "sample_func_kwargs" ->
           [params |-> << Param("a", "POSITIONAL_OR_KEYWORD", FALSE),
                          Param("kwargs", "VAR_KEYWORD", FALSE) >>]
      [] fname = "sample_func_args" ->
           [params |-> << Param("a", "POSITIONAL_OR_KEYWORD", FALSE),
                          Param("args", "VAR_POSITIONAL", FALSE) >>]
      [] fname = "sample_func_pair" ->
           [params |-> << Param("a", "POSITIONAL_OR_KEYWORD", FALSE),
                          Param("b", "POSITIONAL_OR_KEYWORD", TRUE) >>]
      [] fname = "sample_func_args_kwonly" ->
           [params |-> << Param("a", "POSITIONAL_OR_KEYWORD", FALSE),
                          Param("args", "VAR_POSITIONAL", FALSE),
                          Param("b", "KEYWORD_ONLY", TRUE) >>]
      [] OTHER -> [params |-> <<>>]

\* a type hint: a class, or a union of classes
ClassHint(c) == [origin |-> "None", cls |-> c, args |-> {}]
UnionHint(cs) == [origin |-> "Union", cls |-> "", args |-> cs]

\* get_type_hints(func): parameter -> hint, for the hinted parameters
TypeHints(fname) ==
    CASE fname \in {"sample_func_short", "sample_func_kwargs", "sample_func_args"} ->
           [k \in {"a"} |-> ClassHint("int")]
      [] fname \in {"sample_func_pair", "sample_func_args_kwonly"} ->
           [k \in {"a", "b"} |-> IF k = "a" THEN ClassHint("int")
                                  ELSE UnionHint({"str", "float"})]
      [] OTHER -> <<>>

\* lines 5-6: the names imported from collections.abc and typing; each is
\* callable (a class, a function, a special form with __call__)
TypingCallables ==
    {"Callable", "Iterable", "Iterator", "Mapping", "Sequence", "Any", "Literal", "cast"}

\* lines 11-38: the functions imported from the modules of the package
ImportedCallables ==
    {"get_climatological_value", "do_bayesian_buddy_check", "do_mds_buddy_check",
     "do_climatology_check", "do_date_check", "do_day_check", "do_hard_limit_check",
     "do_missing_value_check", "do_missing_value_clim_check", "do_night_check",
     "do_position_check", "do_sst_freeze_check", "do_supersaturation_check",
     "do_time_check", "do_wind_consistency_check", "do_few_check",
     "do_iquam_track_check", "do_spike_check", "do_track_check",
     "find_multiple_rounded_values", "find_repeated_values", "find_saturated_runs"}

\* lines 41-1003: the functions multiple_checks defines
ModuleFunctions ==
    {"_get_function", "_is_func_param", "_is_in_data", "_get_requests_from_params",
     "_get_preprocessed_args", "_validate_dict", "_validate_args",
     "_prepare_preprocessed_vars", "_prepare_qc_functions", "_apply_qc_to_masked_rows",
     "_normalize_groupby", "_validate_and_normalize_input", "_prepare_all_inputs",
     "_group_iterator", "_run_qc_engine", "_do_multiple_check",
     "do_multiple_individual_check", "do_multiple_sequential_check",
     "do_multiple_grouped_check"}

\* inspect.signature of the callables whose code is at hand: the functions
\* of multiple_checks (lines 41-1003), get_climatological_value
\* (external_clim.py), and the typing names, whose signatures are those of
\* Python 3.11; the classes of collections.abc take no parameter
ModuleSig(fname) ==
    CASE fname = "cast" ->
           [params |-> << Param("typ", "POSITIONAL_OR_KEYWORD", FALSE),
                          Param("val", "POSITIONAL_OR_KEYWORD", FALSE) >>]
      [] fname = "Any" ->
           [params |-> << Param("args", "VAR_POSITIONAL", FALSE),
                          Param("kwargs", "VAR_KEYWORD", FALSE) >>]
      [] fname = "Literal" ->
           [params |-> << Param("args", "VAR_POSITIONAL", FALSE),
                          Param("kwds", "VAR_KEYWORD", FALSE) >>]
      [] fname = "get_climatological_value" ->
           [params |-> << Param("climatology", "POSITIONAL_OR_KEYWORD", FALSE),
                          Param("kwargs", "VAR_KEYWORD", FALSE) >>]
      [] fname = "_get_function" ->
           [params |-> << Param("name", "POSITIONAL_OR_KEYWORD", FALSE) >>]
      [] fname = "_is_func_param" ->
           [params |-> << Param("func", "POSITIONAL_OR_KEYWORD", FALSE),
                          Param("param", "POSITIONAL_OR_KEYWORD", FALSE) >>]
      [] fname = "_is_in_data" ->
           [params |-> << Param("name", "POSITIONAL_OR_KEYWORD", FALSE),
                          Param("data", "POSITIONAL_OR_KEYWORD", FALSE) >>]
      [] fname = "_get_requests_from_params" ->
           [params |-> << Param("params", "POSITIONAL_OR_KEYWORD", FALSE),
                          Param("func", "POSITIONAL_OR_KEYWORD", FALSE),
                          Param("data", "POSITIONAL_OR_KEYWORD", FALSE) >>]
      [] fname = "_get_preprocessed_args" ->
           [params |-> << Param("arguments", "POSITIONAL_OR_KEYWORD", FALSE),
                          Param("preprocessed", "POSITIONAL_OR_KEYWORD", FALSE) >>]
      [] fname = "_validate_dict" ->
           [params |-> << Param("input_dict", "POSITIONAL_OR_KEYWORD", FALSE) >>]
      [] fname = "_validate_args" ->
           [params |-> << Param("func", "POSITIONAL_OR_KEYWORD", FALSE),
                          Param("args", "POSITIONAL_OR_KEYWORD", TRUE),
                          Param("kwargs", "POSITIONAL_OR_KEYWORD", TRUE) >>]
      [] fname = "_prepare_preprocessed_vars" ->
           [params |-> << Param("preproc_dict", "POSITIONAL_OR_KEYWORD", FALSE),
                          Param("data", "POSITIONAL_OR_KEYWORD", FALSE) >>]
      [] fname = "_prepare_qc_functions" ->
           [params |-> << Param("qc_dict", "POSITIONAL_OR_KEYWORD", FALSE),
                          Param("preprocessed", "POSITIONAL_OR_KEYWORD", FALSE),
                          Param("data", "POSITIONAL_OR_KEYWORD", FALSE) >>]
      [] fname = "_apply_qc_to_masked_rows" ->
           [params |-> << Param("qc_func", "POSITIONAL_OR_KEYWORD", FALSE),
                          Param("args", "POSITIONAL_OR_KEYWORD", FALSE),
                          Param("kwargs", "POSITIONAL_OR_KEYWORD", FALSE),
                          Param("data_index", "POSITIONAL_OR_KEYWORD", FALSE),
                          Param("mask", "POSITIONAL_OR_KEYWORD", FALSE) >>]
      [] fname = "_normalize_groupby" ->
           [params |-> << Param("data", "POSITIONAL_OR_KEYWORD", FALSE),
                          Param("groupby", "POSITIONAL_OR_KEYWORD", FALSE) >>]
      [] fname = "_validate_and_normalize_input" ->
           [params |-> << Param("data", "POSITIONAL_OR_KEYWORD", FALSE),
                          Param("return_method", "POSITIONAL_OR_KEYWORD", FALSE) >>]
      [] fname = "_prepare_all_inputs" ->
           [params |-> << Param("data", "POSITIONAL_OR_KEYWORD", FALSE),
                          Param("qc_dict", "POSITIONAL_OR_KEYWORD", FALSE),
                          Param("preproc_dict", "POSITIONAL_OR_KEYWORD", FALSE) >>]
      [] fname = "_group_iterator" ->
           [params |-> << Param("data", "POSITIONAL_OR_KEYWORD", FALSE),
                          Param("groupby", "POSITIONAL_OR_KEYWORD", FALSE) >>]
      [] fname = "_run_qc_engine" ->
           [params |-> << Param("data", "POSITIONAL_OR_KEYWORD", FALSE),
                          Param("qc_inputs", "POSITIONAL_OR_KEYWORD", FALSE),
                          Param("groups", "POSITIONAL_OR_KEYWORD", FALSE),
                          Param("return_method", "POSITIONAL_OR_KEYWORD", FALSE) >>]
      [] fname = "_do_multiple_check" ->
           [params |-> << Param("data", "POSITIONAL_OR_KEYWORD", FALSE),
                          Param("groupby", "POSITIONAL_OR_KEYWORD", TRUE),
                          Param("qc_dict", "POSITIONAL_OR_KEYWORD", TRUE),
                          Param("preproc_dict", "POSITIONAL_OR_KEYWORD", TRUE),
                          Param("return_method", "POSITIONAL_OR_KEYWORD", TRUE) >>]
      [] fname = "do_multiple_individual_check" ->
           [params |-> << Param("data", "POSITIONAL_OR_KEYWORD", FALSE),
                          Param("qc_dict", "POSITIONAL_OR_KEYWORD", TRUE),
                          Param("preproc_dict", "POSITIONAL_OR_KEYWORD", TRUE),
                          Param("return_method", "POSITIONAL_OR_KEYWORD", TRUE) >>]
      [] fname = "do_multiple_sequential_check" ->
           [params |-> << Param("data", "POSITIONAL_OR_KEYWORD", FALSE),
                          Param("groupby", "POSITIONAL_OR_KEYWORD", TRUE),
                          Param("qc_dict", "POSITIONAL_OR_KEYWORD", TRUE),
                          Param("preproc_dict", "POSITIONAL_OR_KEYWORD", TRUE),
                          Param("return_method", "POSITIONAL_OR_KEYWORD", TRUE) >>]
      [] fname = "do_multiple_grouped_check" ->
           [params |-> << Param("data", "POSITIONAL_OR_KEYWORD", FALSE),
                          Param("qc_dict", "POSITIONAL_OR_KEYWORD", TRUE),
                          Param("preproc_dict", "POSITIONAL_OR_KEYWORD", TRUE),
                          Param("return_method", "POSITIONAL_OR_KEYWORD", TRUE) >>]
      [] OTHER -> [params |-> <<>>]

\* the callables test_multiple_checks.py defines (lines 33-38)
TestFunctionSig(fname) ==
    CASE fname = "simple_test_function" ->
           [params |-> << Param("in_param", "POSITIONAL_OR_KEYWORD", FALSE),
                          Param("kwargs", "VAR_KEYWORD", FALSE) >>]
      [] fname = "simple_test_function_no_kwargs" ->
           [params |-> << Param("in_param", "POSITIONAL_OR_KEYWORD", FALSE) >>]

\* inspect.signature(func).parameters (the signature of the innermost
\* function of the wrapper chain).  The signatures of the checks are those
\* their uses show: the names the tests bind and the arguments they give.
\* The other imported checks are used nowhere and have no signature here.
FuncSig(fname) ==
    CASE fname = "do_hard_limit_check" ->
           [params |-> << Param("value", "POSITIONAL_OR_KEYWORD", FALSE),
                          Param("limits", "POSITIONAL_OR_KEYWORD", FALSE) >>]
      [] fname = "do_climatology_check" ->
           [params |-> << Param("value", "POSITIONAL_OR_KEYWORD", FALSE),
                          Param("climatology", "POSITIONAL_OR_KEYWORD", FALSE),
                          Param("maximum_anomaly", "POSITIONAL_OR_KEYWORD", FALSE),
                          Param("standard_deviation", "POSITIONAL_OR_KEYWORD", TRUE) >>]
      [] fname = "do_missing_value_check" ->
           [params |-> << Param("value", "POSITIONAL_OR_KEYWORD", FALSE) >>]
      [] fname = "do_spike_check" ->
           [params |-> << Param("value", "POSITIONAL_OR_KEYWORD", FALSE),
                          Param("lat", "POSITIONAL_OR_KEYWORD", FALSE),
                          Param("lon", "POSITIONAL_OR_KEYWORD", FALSE),
                          Param("date", "POSITIONAL_OR_KEYWORD", FALSE),
                          Param("max_gradient_space", "POSITIONAL_OR_KEYWORD", FALSE),
                          Param("max_gradient_time", "POSITIONAL_OR_KEYWORD", FALSE),
                          Param("delta_t", "POSITIONAL_OR_KEYWORD", FALSE),
                          Param("n_neighbours", "POSITIONAL_OR_KEYWORD", FALSE) >>]
      [] fname \in TypingCallables \cup ModuleFunctions \cup {"get_climatological_value"} ->
           ModuleSig(fname)
      [] fname \in {"simple_test_function", "simple_test_function_no_kwargs"} ->
           TestFunctionSig(fname)
      [] fname \notin ImportedCallables -> SampleSig(fname)

\* the names globals() of multiple_checks binds to a callable; the other
\* globals (inspect, pd, the flags, DECORATOR_HANDLERS, DECORATOR_KWARGS)
\* are not callable
CallableGlobals == TypingCallables \cup ImportedCallables \cup ModuleFunctions

\* DECORATOR_HANDLERS along the __wrapped__ chain of a callable, outermost
\* function first: the handlers attached to each function of the chain
DECORATOR_HANDLERS(fname) ==
    CASE fname = "do_hard_limit_check" ->
           << {"post_format_return_type"}, {"inspect_arrays"}, {"convert_units"} >>
      [] fname = "do_climatology_check" ->
           << {"post_format_return_type", "inspect_arrays"}, {"convert_units"} >>
      [] fname = "get_climatological_value" -> << {"inspect_climatology"} >>
      [] OTHER -> <<>>

\* DECORATOR_KWARGS: the keywords a handler reserves (_decorator_kwargs)
DECORATOR_KWARGS(handler) ==
    CASE handler = "convert_units" -> {"units"}
      [] handler = "inspect_climatology" -> {"lat", "lon", "date", "month", "day"}
      [] OTHER -> {}

\* mutant: only the handlers of the outermost function are collected
OutermostHandlers(fname) ==
    IF DECORATOR_HANDLERS(fname) = <<>> THEN {} ELSE DECORATOR_HANDLERS(fname)[1]

\* the handlers of every function of the wrapper chain
all_handlers(fname) ==
    UNION {DECORATOR_HANDLERS(fname)[i] : i \in DOMAIN DECORATOR_HANDLERS(fname)}

\* the keywords reserved by the handlers of the wrapper chain
reserved_keys(fname) == UNION {DECORATOR_KWARGS(h) : h \in all_handlers(fname)}

\* flag of one value against limits = (low, high)
HardLimitFlag(v, limits) ==
    IF v = NaN THEN untestable
    ELSE IF limits[1] <= v /\ v <= limits[2] THEN passed ELSE failed

\* flag of one value against its climatological value
ClimatologyFlag(v, c, maxanom) ==
    IF v = NaN \/ c = NaN THEN untestable
    ELSE IF v - c <= maxanom /\ c - v <= maxanom THEN passed ELSE failed

\* flag of the value at position i among the reports the check was called
\* with: a spike is a value none of its neighbours in time (the other
\* reports at most delta_t away) agrees with
SpikeFlag(vals, dates, i, delta_t) ==
    LET neighbours == {j \in DOMAIN vals :
                          /\ j # i
                          /\ dates[j] - dates[i] <= delta_t
                          /\ dates[i] - dates[j] <= delta_t}
    IN IF vals[i] = NaN THEN untestable
       ELSE IF neighbours # {} /\ \A j \in neighbours : vals[j] # vals[i] THEN failed
       ELSE passed

\* element i of an argument that is either a Series or a scalar literal
ArgAt(a, i) == IF IsSeries(a) THEN a.val[a.index[i]] ELSE a.val[1]

\* the callables that cannot be called: the special forms of typing and
\* the abstract classes of collections.abc raise TypeError
NotInstantiable == TypingCallables \ {"cast"}

\* func(**kw): what the callable returns.  A check returns flags in the
\* type of its "value" argument: a Series of flags with the index of a
\* Series, one flag for a scalar.  cast returns its val and
\* get_climatological_value its climatology (a value that is no
\* Climatology object is handed back as it is).
CallFunction(fname, kw) ==
    LET value == kw["value"]
        n == Len(value.index)
        flagAt(i) ==
            CASE fname = "do_hard_limit_check" ->
                   HardLimitFlag(ArgAt(value, i), kw["limits"].val)
              [] fname = "do_climatology_check" ->
                   ClimatologyFlag(ArgAt(value, i), ArgAt(kw["climatology"], i),
                                   kw["maximum_anomaly"].val[1])
              [] fname = "do_missing_value_check" ->
                   IF ArgAt(value, i) = NaN THEN failed ELSE passed
              [] fname = "do_spike_check" ->
                   IF IsSeries(value) /\ IsSeries(kw["date"])
                     THEN SpikeFlag(SeriesValues(value), SeriesValues(kw["date"]), i,
                                    kw["delta_t"].val[1])
                     ELSE IF ArgAt(value, i) = NaN THEN untestable ELSE passed
        pos(r) == CHOOSE i \in 1..n : value.index[i] = r
    IN IF fname = "cast" THEN kw["val"]
       ELSE IF fname = "get_climatological_value" THEN kw["climatology"]
       ELSE IF IsSeries(value)
         THEN [kind |-> "series", index |-> value.index,
               val |-> [r \in Range(value.index) |-> flagAt(pos(r))]]
         ELSE Literal(<<flagAt(1)>>)

(***************************************************************************)
(* Configuration: an ordered mapping of name -> descriptor.  A descriptor  *)
(* has an optional "func", "names" (parameter -> column, in insertion      *)
(* order), "arguments" (parameter -> literal or the placeholder token) and,*)
(* for preprocessing, "inputs" (positional literals).                      *)
(***************************************************************************)
\* a literal of "arguments"; ph marks the token "__preprocessed__"
Lit(t) == [ph |-> FALSE, val |-> t]
Placeholder == [ph |-> TRUE, val |-> <<>>]

Descriptor(key, hasFunc, func, names, arguments, inputs) ==
    [key |-> key, keyIsStr |-> TRUE, valIsMapping |-> TRUE,
     hasFunc |-> hasFunc, func |-> func,
     names |-> names, arguments |-> arguments, inputs |-> inputs]

\* a mapping; bool(mapping) is False for the empty one
Config(entries) == [isMapping |-> TRUE, truthy |-> entries # <<>>, entries |-> entries]

\* an object that is not a mapping: a truthy one ("invalid_input") or a
\* falsy one ([], "", 0)
NotAMapping(truthy) == [isMapping |-> FALSE, truthy |-> truthy, entries |-> <<>>]

\* keys of an ordered mapping given as a sequence of <<key, value>> pairs
KeysOf(pairs) == {pairs[i][1] : i \in DOMAIN pairs}

\* value of key k in an ordered mapping
ValueOf(pairs, k) == (CHOOSE i \in DOMAIN pairs : pairs[i][1] = k)

\* an exception: its class, the failure it reports and the name its message
\* gives
ErrOn(cls, why, what) == [cls |-> cls, why |-> why, what |-> what]
Err(cls, why) == ErrOn(cls, why, "")
NoErr == Err("", "")

(***************************************************************************)
(* Argument Resolver                                                       *)
(***************************************************************************)
ParamNames(fname) == {FuncSig(fname).params[i].name : i \in DOMAIN FuncSig(fname).params}

\* lines 60-63: globals().get(name), NameError unless it is callable
_get_function(name) ==
    IF name \in CallableGlobals THEN NoErr ELSE Err("NameError", "unknown_function")

_is_func_param(fname, param) ==
    IF "kwargs" \in ParamNames(fname) THEN TRUE
    ELSE param \in ParamNames(fname)

\* data is always the normalised DataFrame here
_is_in_data(name, data) == name \in data.columns

RECURSIVE RequestsError(_, _, _)
\* the first error _get_requests_from_params raises, scanning names in order
RequestsError(names, fname, data) ==
    IF names = <<>> THEN NoErr
    ELSE IF ~_is_func_param(fname, Head(names)[1])
           THEN ErrOn("ValueError", "invalid_parameter", Head(names)[1])
    ELSE IF ~_is_in_data(Head(names)[2], data)
           THEN ErrOn("NameError", "unknown_column", Head(names)[2])
    ELSE RequestsError(Tail(names), fname, data)

\* mutant: the requested columns are cut to the first row of data
RequestsOfFirstRow(names, fname, data) ==
    [p \in KeysOf(names) |->
        SeriesLoc(Column(data, names[ValueOf(names, p)][2]), SeqFilter(data.index, {data.index[i] : i \in DOMAIN data.index \cap {1}}))]

\* the requests dictionary: parameter -> full column of data
_get_requests_from_params(names, fname, data) ==
    [p \in KeysOf(names) |-> Column(data, names[ValueOf(names, p)][2])]

\* KeyError when a placeholder names a variable that was never preprocessed
PreprocessedArgsError(arguments, preprocessed) ==
    IF \E i \in DOMAIN arguments :
          arguments[i][2].ph /\ arguments[i][1] \notin DOMAIN preprocessed
    THEN Err("KeyError", "missing_placeholder") ELSE NoErr

\* mutant: the placeholder token is handed over like any other literal
TokenPassedThrough(arguments, preprocessed) ==
    [k \in KeysOf(arguments) |-> Literal(arguments[ValueOf(arguments, k)][2].val)]

_get_preprocessed_args(arguments, preprocessed) ==
    [k \in KeysOf(arguments) |->
        LET v == arguments[ValueOf(arguments, k)][2]
        IN IF v.ph THEN preprocessed[k] ELSE Literal(v.val)]

(***************************************************************************)
(* Contract Validator (_validate_dict, _validate_args)                     *)
(***************************************************************************)
RECURSIVE EntriesError(_)
EntriesError(entries) ==
    IF entries = <<>> THEN NoErr
    ELSE IF ~Head(entries).keyIsStr THEN Err("TypeError", "non_string_key")
    ELSE IF ~Head(entries).valIsMapping THEN Err("TypeError", "non_mapping_value")
    ELSE EntriesError(Tail(entries))

\* lines 540-541 of _prepare_all_inputs, "qc_dict or {}": a falsy object
\* (None, an empty mapping, but also [], "" or 0) is replaced by {}
OrEmpty(d) == IF d.truthy THEN d ELSE Config(<<>>)

_validate_dict(input_dict) ==
    IF ~input_dict.isMapping THEN Err("TypeError", "not_a_mapping")
    ELSE EntriesError(input_dict.entries)

\* mutant: a required parameter must be given by keyword; the parameters
\* bound by the positional arguments are not looked at
ValidateArgsKeywordsOnly(fname, nargs, kwkeys) ==
    LET params == FuncSig(fname).params
        positional_params ==
            SelectSeq(params, LAMBDA p : p.kind \in {"POSITIONAL_ONLY", "POSITIONAL_OR_KEYWORD"})
        has_args == \E i \in DOMAIN params : params[i].kind = "VAR_POSITIONAL"
        has_kwargs == \E i \in DOMAIN params : params[i].kind = "VAR_KEYWORD"
    IN IF nargs > Len(positional_params) /\ ~has_args
         THEN Err("TypeError", "too_many_positional")
       ELSE IF \E key \in kwkeys :
                 key \notin ParamNames(fname) /\ key \notin reserved_keys(fname) /\ ~has_kwargs
         THEN Err("ValueError", "unknown_keyword")
       ELSE IF \E i \in DOMAIN params :
                 /\ ~params[i].hasDefault
                 /\ params[i].kind \in {"POSITIONAL_ONLY", "POSITIONAL_OR_KEYWORD", "KEYWORD_ONLY"}
                 /\ params[i].name \notin kwkeys
         THEN Err("TypeError", "missing_required")
       ELSE NoErr

\* nargs positional arguments and the keyword names kwkeys against the
\* signature of fname
_validate_args(fname, nargs, kwkeys) ==
    LET sig == FuncSig(fname)
        params == sig.params
        positional_params ==
            SelectSeq(params, LAMBDA p : p.kind \in {"POSITIONAL_ONLY", "POSITIONAL_OR_KEYWORD"})
        has_args == \E i \in DOMAIN params : params[i].kind = "VAR_POSITIONAL"
        nbound == IF nargs < Len(positional_params) THEN nargs ELSE Len(positional_params)
        bound_args == {positional_params[i].name : i \in 1..nbound}
        has_kwargs == \E i \in DOMAIN params : params[i].kind = "VAR_KEYWORD"
    IN IF nargs > Len(positional_params) /\ ~has_args
         THEN Err("TypeError", "too_many_positional")
       ELSE IF \E key \in kwkeys :
                 key \notin ParamNames(fname) /\ key \notin reserved_keys(fname) /\ ~has_kwargs
         THEN Err("ValueError", "unknown_keyword")
       ELSE IF \E i \in DOMAIN params :
                 /\ ~params[i].hasDefault
                 /\ params[i].kind \in {"POSITIONAL_ONLY", "POSITIONAL_OR_KEYWORD", "KEYWORD_ONLY"}
                 /\ params[i].name \notin kwkeys
                 /\ params[i].name \notin bound_args
         THEN Err("TypeError", "missing_required")
       ELSE NoErr

(***************************************************************************)
(* Contract Validator with type hints (validations.py)                     *)
(***************************************************************************)
\* a value, by its class
ValueOfClass(c) == [cls |-> c]

\* isinstance(value, cls): bool is a subclass of int
IsInstance(value, cls) == value.cls = cls \/ (value.cls = "bool" /\ cls = "int")

_validate_non_generic(value, expected) == IsInstance(value, expected.cls)

\* lines 257-273, for a class and for a union of classes
validate_type(value, expected) ==
    IF expected.origin = "None" THEN _validate_non_generic(value, expected)
    ELSE \E t \in expected.args : _validate_non_generic(value, ClassHint(t))

\* lines 330-341
validate_arg(key, value, fname, reserved, has_arguments) ==
    IF has_arguments \/ key \in reserved THEN NoErr
    ELSE IF key \notin ParamNames(fname) THEN ErrOn("ValueError", "unknown_keyword", key)
    ELSE IF key \notin DOMAIN TypeHints(fname) THEN NoErr
    ELSE IF ~validate_type(value, TypeHints(fname)[key])
           THEN ErrOn("TypeError", "argument_type", key)
    ELSE NoErr

RECURSIVE PositionalError(_, _, _, _, _)
\* lines 424-425: the first error of the loop over the positional
\* arguments, from position i on; bound_args[i] fails with IndexError for
\* an argument beyond the positional parameters
PositionalError(fname, args, bound_args, has_args, i) ==
    IF i > Len(args) THEN NoErr
    ELSE IF i > Len(bound_args) THEN Err("IndexError", "bound_args")
    ELSE IF validate_arg(bound_args[i], args[i], fname, reserved_keys(fname), has_args) # NoErr
           THEN validate_arg(bound_args[i], args[i], fname, reserved_keys(fname), has_args)
    ELSE PositionalError(fname, args, bound_args, has_args, i + 1)

RECURSIVE KeywordError(_, _, _)
\* lines 427-428: the first error of the loop over the keyword arguments
KeywordError(fname, kwargs, has_kwargs) ==
    IF kwargs = <<>> THEN NoErr
    ELSE IF validate_arg(Head(kwargs)[1], Head(kwargs)[2], fname,
                         reserved_keys(fname), has_kwargs) # NoErr
           THEN validate_arg(Head(kwargs)[1], Head(kwargs)[2], fname,
                             reserved_keys(fname), has_kwargs)
    ELSE KeywordError(fname, Tail(kwargs), has_kwargs)

\* validations.validate_args: the positional arguments args and the keyword
\* arguments kwargs (key, value pairs in insertion order) against fname
validate_args(fname, args, kwargs) ==
    LET params == FuncSig(fname).params
        positional_params ==
            SelectSeq(params, LAMBDA p : p.kind \in {"POSITIONAL_ONLY", "POSITIONAL_OR_KEYWORD"})
        has_args == \E i \in DOMAIN params : params[i].kind = "VAR_POSITIONAL"
        nbound == IF Len(args) < Len(positional_params) THEN Len(args)
                  ELSE Len(positional_params)
        bound_args == [i \in 1..nbound |-> positional_params[i].name]
        has_kwargs == \E i \in DOMAIN params : params[i].kind = "VAR_KEYWORD"
    IN IF Len(args) > Len(positional_params) /\ ~has_args
         THEN Err("TypeError", "too_many_positional")
       ELSE IF PositionalError(fname, args, bound_args, has_args, 1) # NoErr
         THEN PositionalError(fname, args, bound_args, has_args, 1)
       ELSE IF KeywordError(fname, kwargs, has_kwargs) # NoErr
         THEN KeywordError(fname, kwargs, has_kwargs)
       ELSE IF \E i \in DOMAIN params :
                 /\ ~params[i].hasDefault
                 /\ params[i].kind \in {"POSITIONAL_ONLY", "POSITIONAL_OR_KEYWORD", "KEYWORD_ONLY"}
                 /\ params[i].name \notin KeysOf(kwargs)
                 /\ params[i].name \notin Range(bound_args)
         THEN Err("TypeError", "missing_required")
       ELSE NoErr

\* mutant: an absent column is only found by the lookup data[cname], which
\* fails with a KeyError
QcDescriptorErrorKeyError(params, preprocessed, data) ==
    IF ~params.hasFunc THEN Err("ValueError", "missing_func")
    ELSE IF _get_function(params.func) # NoErr THEN _get_function(params.func)
    ELSE IF RequestsError(params.names, params.func, data) # NoErr
           THEN [RequestsError(params.names, params.func, data) EXCEPT !.cls = "KeyError"]
    ELSE IF PreprocessedArgsError(params.arguments, preprocessed) # NoErr
           THEN PreprocessedArgsError(params.arguments, preprocessed)
    ELSE _validate_args(params.func, 0,
                        KeysOf(params.names) \cup KeysOf(params.arguments))

\* the error, if any, of resolving one check descriptor (lines 394-399)
QcDescriptorError(params, preprocessed, data) ==
    IF ~params.hasFunc THEN Err("ValueError", "missing_func")
    ELSE IF _get_function(params.func) # NoErr THEN _get_function(params.func)
    ELSE IF RequestsError(params.names, params.func, data) # NoErr
           THEN RequestsError(params.names, params.func, data)
    ELSE IF PreprocessedArgsError(params.arguments, preprocessed) # NoErr
           THEN PreprocessedArgsError(params.arguments, preprocessed)
    ELSE _validate_args(params.func, 0,
                        KeysOf(params.names) \cup KeysOf(params.arguments))

\* the error, if any, of resolving one preprocessing descriptor (346-359)
PreprocDescriptorError(params, data) ==
    IF ~params.hasFunc THEN Err("ValueError", "missing_func")
    ELSE IF _get_function(params.func) # NoErr THEN _get_function(params.func)
    ELSE IF RequestsError(params.names, params.func, data) # NoErr
           THEN RequestsError(params.names, params.func, data)
    ELSE _validate_args(params.func, Len(params.inputs),
                        KeysOf(params.names) \cup KeysOf(params.arguments))

(***************************************************************************)
(* Grouping (_normalize_groupby, _group_iterator)                          *)
(***************************************************************************)
NoGroupBy == [kind |-> "none", col |-> "", groups |-> <<>>]
ByColumn(c) == [kind |-> "column", col |-> c, groups |-> <<>>]
\* a DataFrameGroupBy object built by the caller: its (name, index) groups
External(gs) == [kind |-> "external", col |-> "", groups |-> gs]

Group(name, index) == [name |-> name, index |-> index]

\* data.groupby(col, group_keys=False, sort=False): one group per distinct
\* key in first-seen order, rows in table order; rows whose key is missing
\* belong to no group (pandas drops NaN keys)
GroupByColumn(data, col) ==
    LET keyOf(r) == data.cell[r][col]
        keys == Unique([i \in 1..Len(data.index) |-> keyOf(data.index[i])])
        present == SelectSeq(keys, LAMBDA k : k # "NaN")
    IN [g \in 1..Len(present) |->
          Group(present[g],
                SeqFilter(data.index, {r \in RowIds(data) : keyOf(r) = present[g]}))]

RECURSIVE TrimGroups(_, _)
\* lines 471-479: intersect every external group with the rows of data and
\* drop the empty ones
TrimGroups(gs, valid) ==
    IF gs = <<>> THEN <<>>
    ELSE LET idx == SeqFilter(Head(gs).index, valid)
         IN IF Len(idx) > 0
              THEN <<Group(Head(gs).name, idx)>> \o TrimGroups(Tail(gs), valid)
              ELSE TrimGroups(Tail(gs), valid)

\* mutant: the groups of a caller-built grouping object are cut to the rows
\* of the table and all kept, the empty ones too
NormalizeKeepingEmptyGroups(data, groupby) ==
    IF groupby.kind = "none" THEN <<Group("None", data.index)>>
    ELSE IF groupby.kind = "column" THEN GroupByColumn(data, groupby.col)
    ELSE [g \in 1..Len(groupby.groups) |->
            Group(groupby.groups[g].name, SeqFilter(groupby.groups[g].index, RowIds(data)))]

_normalize_groupby(data, groupby) ==
    IF groupby.kind = "none" THEN <<Group("None", data.index)>>
    ELSE IF groupby.kind = "column" THEN GroupByColumn(data, groupby.col)
    ELSE TrimGroups(groupby.groups, RowIds(data))

_group_iterator(data, groupby) ==
    IF groupby.kind = "none" THEN <<Group("None", data.index)>>
    ELSE _normalize_groupby(data, groupby)

\* data.groupby raises KeyError for a column the table does not have
GroupByError(data, groupby) ==
    IF groupby.kind = "column" /\ groupby.col \notin data.columns
    THEN Err("KeyError", "unknown_group_column") ELSE NoErr

(***************************************************************************)
(* Engine helpers                                                          *)
(***************************************************************************)
\* mask.any()
MaskAny(m) == \E r \in DOMAIN m : m[r]

\* mutant: the arguments are handed over whole, whatever the group
SliceArgsWhole(d, idx) == d

\* mutant: a Series argument is cut to the rows of the group in reverse order
SliceArgsReversed(d, idx) ==
    [k \in DOMAIN d |-> IF IsSeries(d[k]) THEN SeriesLoc(d[k], Reverse(idx)) ELSE d[k]]

\* lines 627-628: slice every Series argument to the rows of the group
SliceArgs(d, idx) ==
    [k \in DOMAIN d |-> IF IsSeries(d[k]) THEN SeriesLoc(d[k], idx) ELSE d[k]]

\* qc_func(**args, **kwargs) cannot bind a keyword given twice
CallError(args, kwargs) ==
    IF (DOMAIN args) \cap (DOMAIN kwargs) # {}
    THEN Err("TypeError", "multiple_values") ELSE NoErr

\* func(**kw) raises on its own account
InvocationError(fname) ==
    IF fname \in NotInstantiable THEN Err("TypeError", "cannot_instantiate") ELSE NoErr

\* line 435, qc_func(**args, **kwargs): the exception the call raises, in
\* binding its arguments or in the callable
InvokeError(qc_func, args, kwargs) ==
    IF CallError(args, kwargs) # NoErr THEN CallError(args, kwargs)
    ELSE InvocationError(qc_func)

\* func(*inputs, ...): the parameters the positional arguments bind to
BindPositional(fname, inputs) ==
    LET positional_params ==
            SelectSeq(FuncSig(fname).params,
                      LAMBDA p : p.kind \in {"POSITIONAL_ONLY", "POSITIONAL_OR_KEYWORD"})
        n == IF Len(inputs) < Len(positional_params) THEN Len(inputs)
             ELSE Len(positional_params)
    IN [k \in {positional_params[i].name : i \in 1..n} |->
          Literal(inputs[CHOOSE i \in 1..n : positional_params[i].name = k])]

\* {**args, **kwargs}
Merge(args, kwargs) ==
    [k \in (DOMAIN args) \cup (DOMAIN kwargs) |->
        IF k \in DOMAIN kwargs THEN kwargs[k] ELSE args[k]]

\* line 437, pd.Series(partial, index=data_index): a scalar is broadcast to
\* every row of data_index; a Series is reindexed to data_index, with NaN
\* for the labels it does not have
SeriesOnIndex(partial, data_index) ==
    [r \in Range(data_index) |->
        IF IsSeries(partial)
          THEN IF r \in Range(partial.index) THEN partial.val[r] ELSE NaN
          ELSE partial.val[1]]

\* mutant: the callable's flags are kept for the rows outside the mask too
ApplyQcIgnoringMask(qc_func, args, kwargs, data_index, mask) ==
    SeriesOnIndex(CallFunction(qc_func, Merge(args, kwargs)), data_index)

\* lines 435-443: the callable's result is aligned to data_index (line
\* 437), then written over a Series of untested on the rows of mask
_apply_qc_to_masked_rows(qc_func, args, kwargs, data_index, mask) ==
    LET partial == SeriesOnIndex(CallFunction(qc_func, Merge(args, kwargs)), data_index)
        full == [r \in Range(data_index) |-> untested]
    IN [r \in Range(data_index) |-> IF mask[r] THEN partial[r] ELSE full[r]]

\* mutant: a row is deactivated by any flag but the one the mode ignores
\* (group_mask &= full == passed instead of full != failed)
ShrinkMaskOnUntestable(m, full, return_method) ==
    IF return_method = "failed"
      THEN [r \in DOMAIN m |-> IF r \in DOMAIN full THEN m[r] /\ full[r] = passed ELSE m[r]]
    ELSE IF return_method = "passed"
      THEN [r \in DOMAIN m |-> IF r \in DOMAIN full THEN m[r] /\ full[r] = failed ELSE m[r]]
    ELSE m

\* mutant: the outcome of a check never deactivates a row
ShrinkMaskNever(m, full, return_method) == m

\* lines 640-645: group_mask &= full != failed (or passed); no update for
\* return_method "all"
ShrinkMask(m, full, return_method) ==
    IF return_method = "failed"
      THEN [r \in DOMAIN m |-> IF r \in DOMAIN full THEN m[r] /\ full[r] # failed ELSE m[r]]
    ELSE IF return_method = "passed"
      THEN [r \in DOMAIN m |-> IF r \in DOMAIN full THEN m[r] /\ full[r] # passed ELSE m[r]]
    ELSE m

\* mutant: the columns of the Flag Matrix are laid out in reverse order
EmptyResultsReversedColumns(data, qc_inputs) ==
    [index |-> data.index,
     columns |-> Reverse([i \in 1..Len(qc_inputs) |-> qc_inputs[i].name]),
     cell |-> [r \in RowIds(data) |->
                 [c \in {qc_inputs[i].name : i \in 1..Len(qc_inputs)} |-> untested]]]

\* pd.DataFrame(untested, index=data.index, columns=qc_inputs.keys())
EmptyResults(data, qc_inputs) ==
    [index |-> data.index,
     columns |-> [i \in 1..Len(qc_inputs) |-> qc_inputs[i].name],
     cell |-> [r \in RowIds(data) |->
                 [c \in {qc_inputs[i].name : i \in 1..Len(qc_inputs)} |-> untested]]]

\* mutant: the whole column is written, the rows outside the group with
\* untestable (results[qc_name] = full.reindex(results.index, fill_value=untestable))
AssignWholeColumn(res, idx, qc_name, full) ==
    [res EXCEPT !.cell =
        [r \in DOMAIN res.cell |->
            [res.cell[r] EXCEPT ![qc_name] = IF r \in Range(idx) THEN full[r] ELSE untestable]]]

\* results.loc[gdf.index, qc_name] = full
AssignColumn(res, idx, qc_name, full) ==
    [res EXCEPT !.cell =
        [r \in DOMAIN res.cell |->
            IF r \in Range(idx) THEN [res.cell[r] EXCEPT ![qc_name] = full[r]]
            ELSE res.cell[r]]]

\* data.to_frame() of a Series: a one-column table with the same index
ToFrame(data) == [data EXCEPT !.isSeries = FALSE]

(***************************************************************************)
(* State of one invocation of _do_multiple_check                           *)
(***************************************************************************)
VARIABLES
    data,            \* the caller's input (table or Series), never written
    groupby,         \* the caller's grouping request
    qc_dict,         \* the check configuration
    preproc_dict,    \* the preprocessing configuration
    return_method,   \* the requested return method
    frame,           \* the normalised DataFrame (local "data")
    is_series,       \* whether the input was a Series
    preprocessed,    \* derived-variable map: name -> value
    qc_inputs,       \* resolved checks: {function, requests, kwargs}
    groups,          \* the (name, index) groups of the run
    mask,            \* global "still active" mask
    results,         \* the Flag Matrix
    group_mask,      \* working mask of the current group
    gi,              \* number of groups started
    j,               \* position of the next check for the current group
    pi,              \* number of preprocessing descriptors done
    qi,              \* number of check descriptors resolved
    pc,              \* position of the call
    err,             \* the exception raised, if any
    ret,             \* the returned value
    trace,           \* history: validations and invocations, in order
    first,           \* what the caller kept of an earlier call on the table
    call,            \* a resolved call handed to the Contract Validator
    verdict          \* what each of the two validators made of it

\* what belongs to the caller: an invocation reads it and never writes it
inputs == <<data, groupby, qc_dict, preproc_dict, return_method, first,
            call, verdict>>
vars == <<data, groupby, qc_dict, preproc_dict, return_method, frame,
          is_series, preprocessed, qc_inputs, groups, mask, results,
          group_mask, gi, j, pi, qi, pc, err, ret, trace, first, call, verdict>>

NoValue == [kind |-> "none", value |-> <<>>]

Event(kind, name, g, idx, kw, out) ==
    [kind |-> kind, name |-> name, gi |-> g, index |-> idx, kw |-> kw, out |-> out]

Raise(e) ==
    /\ pc' = "error"
    /\ err' = e

\* mutant: the input is normalised without looking at return_method
NormalizeWithoutValidation ==
    /\ pc = "start"
    /\ is_series' = data.isSeries
    /\ frame' = IF data.isSeries THEN ToFrame(data) ELSE data
    /\ pc' = "preprocess"
    /\ UNCHANGED <<inputs, preprocessed, qc_inputs, groups, mask, results,
                   group_mask, gi, j, pi, qi, err, ret, trace>>

\* lines 505-510
_validate_and_normalize_input ==
    /\ pc = "start"
    /\ IF return_method \notin ReturnMethods
         THEN /\ Raise(Err("ValueError", "return_method"))
              /\ UNCHANGED <<frame, is_series>>
         ELSE /\ is_series' = data.isSeries
              /\ frame' = IF data.isSeries THEN ToFrame(data) ELSE data
              /\ pc' = "preprocess"
              /\ err' = err
    /\ UNCHANGED <<inputs, preprocessed, qc_inputs, groups, mask, results,
                   group_mask, gi, j, pi, qi, ret, trace>>

\* mutant: the preprocessing configuration is not validated as a whole
\* before its entries are run
PreprocDictNotValidated ==
    /\ pc = "preprocess"
    /\ trace' = Append(trace, Event("validate_dict", "preproc_dict", 0, <<>>, <<>>, <<>>))
    /\ pc' = "preproc_loop" /\ err' = err
    /\ UNCHANGED <<inputs, frame, is_series, preprocessed, qc_inputs, groups,
                   mask, results, group_mask, gi, j, pi, qi, ret>>

\* line 541 then lines 341-343: _validate_dict(preproc_dict or {})
ValidatePreprocDict ==
    /\ pc = "preprocess"
    /\ trace' = Append(trace, Event("validate_dict", "preproc_dict", 0, <<>>, <<>>, <<>>))
    /\ IF _validate_dict(OrEmpty(preproc_dict)) # NoErr
         THEN Raise(_validate_dict(OrEmpty(preproc_dict)))
         ELSE pc' = "preproc_loop" /\ err' = err
    /\ UNCHANGED <<inputs, frame, is_series, preprocessed, qc_inputs, groups,
                   mask, results, group_mask, gi, j, pi, qi, ret>>

\* mutant: the positional inputs are taken out of the caller's descriptor
\* (params.pop("inputs", []) for params.get("inputs", []), line 351)
PreprocessOnePoppingInputs ==
    /\ pc = "preproc_loop"
    /\ pi < Len(OrEmpty(preproc_dict).entries)
    /\ LET params == OrEmpty(preproc_dict).entries[pi + 1]
           e == PreprocDescriptorError(params, frame)
           requests == _get_requests_from_params(params.names, params.func, frame)
           arguments == [k \in KeysOf(params.arguments) |->
                           Literal(params.arguments[ValueOf(params.arguments, k)][2].val)]
           bound == BindPositional(params.func, params.inputs)
           kw == Merge(bound, Merge(requests, arguments))
           out == CallFunction(params.func, kw)
       IN IF e # NoErr
            THEN /\ Raise(e)
                 /\ trace' = Append(trace, Event("resolve", params.key, 0, <<>>, <<>>, <<>>))
                 /\ UNCHANGED <<preprocessed, pi>>
          ELSE IF CallError(requests, arguments) # NoErr
                  \/ CallError(bound, Merge(requests, arguments)) # NoErr
            THEN /\ Raise(Err("TypeError", "multiple_values"))
                 /\ trace' = Append(trace, Event("resolve", params.key, 0, <<>>, <<>>, <<>>))
                 /\ UNCHANGED <<preprocessed, pi>>
          ELSE IF InvocationError(params.func) # NoErr
            THEN /\ Raise(InvocationError(params.func))
                 /\ trace' = Append(trace, Event("resolve", params.key, 0, <<>>, <<>>, <<>>))
                 /\ UNCHANGED <<preprocessed, pi>>
          ELSE /\ preprocessed' = (params.key :> out) @@ preprocessed
               /\ trace' = trace \o
                     << Event("resolve", params.key, 0, <<>>, <<>>, <<>>),
                        Event("preproc", params.key, 0, frame.index, kw, out) >>
               /\ pi' = pi + 1
               /\ pc' = pc /\ err' = err
    /\ preproc_dict' = [preproc_dict EXCEPT !.entries[pi + 1].inputs = <<>>]
    /\ UNCHANGED <<data, groupby, qc_dict, return_method, first, call, verdict,
                   frame, is_series, qc_inputs, groups, mask, results,
                   group_mask, gi, j, qi, ret>>

\* lines 345-361: one iteration of the loop of _prepare_preprocessed_vars,
\* the invocation of the callable on the whole table included
PreprocessOne ==
    /\ pc = "preproc_loop"
    /\ pi < Len(OrEmpty(preproc_dict).entries)
    /\ LET params == OrEmpty(preproc_dict).entries[pi + 1]
           e == PreprocDescriptorError(params, frame)
           requests == _get_requests_from_params(params.names, params.func, frame)
           arguments == [k \in KeysOf(params.arguments) |->
                           Literal(params.arguments[ValueOf(params.arguments, k)][2].val)]
           bound == BindPositional(params.func, params.inputs)
           kw == Merge(bound, Merge(requests, arguments))
           out == CallFunction(params.func, kw)
       IN IF e # NoErr
            THEN /\ Raise(e)
                 /\ trace' = Append(trace, Event("resolve", params.key, 0, <<>>, <<>>, <<>>))
                 /\ UNCHANGED <<preprocessed, pi>>
          ELSE IF CallError(requests, arguments) # NoErr
                  \/ CallError(bound, Merge(requests, arguments)) # NoErr
            THEN /\ Raise(Err("TypeError", "multiple_values"))
                 /\ trace' = Append(trace, Event("resolve", params.key, 0, <<>>, <<>>, <<>>))
                 /\ UNCHANGED <<preprocessed, pi>>
          ELSE IF InvocationError(params.func) # NoErr
            THEN /\ Raise(InvocationError(params.func))
                 /\ trace' = Append(trace, Event("resolve", params.key, 0, <<>>, <<>>, <<>>))
                 /\ UNCHANGED <<preprocessed, pi>>
          ELSE /\ preprocessed' = (params.key :> out) @@ preprocessed
               /\ trace' = trace \o
                     << Event("resolve", params.key, 0, <<>>, <<>>, <<>>),
                        Event("preproc", params.key, 0, frame.index, kw, out) >>
               /\ pi' = pi + 1
               /\ pc' = pc /\ err' = err
    /\ UNCHANGED <<inputs, frame, is_series, qc_inputs, groups, mask, results,
                   group_mask, gi, j, qi, ret>>

\* line 540 then lines 389-391: _validate_dict(qc_dict or {}), once
\* preprocessing has returned
ValidateQcDict ==
    /\ pc = "preproc_loop"
    /\ pi = Len(OrEmpty(preproc_dict).entries)
    /\ trace' = Append(trace, Event("validate_dict", "qc_dict", 0, <<>>, <<>>, <<>>))
    /\ IF _validate_dict(OrEmpty(qc_dict)) # NoErr
         THEN Raise(_validate_dict(OrEmpty(qc_dict)))
         ELSE pc' = "qc_loop" /\ err' = err
    /\ UNCHANGED <<inputs, frame, is_series, preprocessed, qc_inputs, groups,
                   mask, results, group_mask, gi, j, pi, qi, ret>>

\* mutant: every check is invoked on the whole table as soon as its own
\* descriptor is resolved, before the later descriptors are looked at
PrepareAndInvoke ==
    /\ pc = "qc_loop"
    /\ qi < Len(OrEmpty(qc_dict).entries)
    /\ LET params == OrEmpty(qc_dict).entries[qi + 1]
           e == QcDescriptorError(params, preprocessed, frame)
           requests == _get_requests_from_params(params.names, params.func, frame)
           kwargs == _get_preprocessed_args(params.arguments, preprocessed)
       IN IF e # NoErr
            THEN /\ Raise(e)
                 /\ trace' = Append(trace, Event("resolve", params.key, 0, <<>>, <<>>, <<>>))
                 /\ UNCHANGED <<qc_inputs, qi>>
            ELSE /\ qc_inputs' = Append(qc_inputs,
                       [name |-> params.key, function |-> params.func,
                        requests |-> requests, kwargs |-> kwargs])
                 /\ trace' = trace \o
                       << Event("resolve", params.key, 0, <<>>, <<>>, <<>>),
                          Event("check", params.key, 0, frame.index, Merge(requests, kwargs),
                                CallFunction(params.func, Merge(requests, kwargs))) >>
                 /\ qi' = qi + 1
                 /\ pc' = pc /\ err' = err
    /\ UNCHANGED <<inputs, frame, is_series, preprocessed, groups, mask,
                   results, group_mask, gi, j, pi, ret>>

\* lines 393-401: one iteration of the loop of _prepare_qc_functions
PrepareOne ==
    /\ pc = "qc_loop"
    /\ qi < Len(OrEmpty(qc_dict).entries)
    /\ LET params == OrEmpty(qc_dict).entries[qi + 1]
           e == QcDescriptorError(params, preprocessed, frame)
       IN /\ trace' = Append(trace, Event("resolve", params.key, 0, <<>>, <<>>, <<>>))
          /\ IF e # NoErr
               THEN /\ Raise(e)
                    /\ UNCHANGED <<qc_inputs, qi>>
               ELSE /\ qc_inputs' = Append(qc_inputs,
                          [name |-> params.key, function |-> params.func,
                           requests |-> _get_requests_from_params(params.names, params.func, frame),
                           kwargs |-> _get_preprocessed_args(params.arguments, preprocessed)])
                    /\ qi' = qi + 1
                    /\ pc' = pc /\ err' = err
    /\ UNCHANGED <<inputs, frame, is_series, preprocessed, groups, mask,
                   results, group_mask, gi, j, pi, ret>>

\* mutant: the Flag Matrix is allocated with the rows put in reverse order
StartEngineReordered ==
    /\ pc = "qc_loop"
    /\ qi = Len(OrEmpty(qc_dict).entries)
    /\ mask' = [r \in RowIds(frame) |-> TRUE]
    /\ results' = [EmptyResults(frame, qc_inputs) EXCEPT !.index = Reverse(frame.index)]
    /\ groups' = _group_iterator(frame, groupby)
    /\ pc' = "groups" /\ err' = err
    /\ UNCHANGED <<inputs, frame, is_series, preprocessed, qc_inputs,
                   group_mask, gi, j, pi, qi, ret, trace>>

\* lines 546-547, 704 and 617-618: the (lazy) group iterator is built and
\* the engine allocates its mask and its Flag Matrix
StartEngine ==
    /\ pc = "qc_loop"
    /\ qi = Len(OrEmpty(qc_dict).entries)
    /\ mask' = [r \in RowIds(frame) |-> TRUE]
    /\ results' = EmptyResults(frame, qc_inputs)
    /\ IF GroupByError(frame, groupby) # NoErr
         THEN /\ Raise(GroupByError(frame, groupby))
              /\ UNCHANGED groups
         ELSE /\ groups' = _group_iterator(frame, groupby)
              /\ pc' = "groups" /\ err' = err
    /\ UNCHANGED <<inputs, frame, is_series, preprocessed, qc_inputs,
                   group_mask, gi, j, pi, qi, ret, trace>>

\* lines 620-621: the next group is taken and its working mask copied
NextGroup ==
    /\ pc = "groups"
    /\ gi < Len(groups)
    /\ gi' = gi + 1
    /\ group_mask' = [r \in Range(groups[gi + 1].index) |-> mask[r]]
    /\ j' = 1
    /\ pc' = "checks"
    /\ UNCHANGED <<inputs, frame, is_series, preprocessed, qc_inputs, groups,
                   mask, results, pi, qi, err, ret, trace>>

\* mutant: the checks of a group are taken from the last one declared to
\* the first
InvokeCheckLastFirst ==
    /\ pc = "checks"
    /\ j <= Len(qc_inputs)
    /\ MaskAny(group_mask)
    /\ LET qc == qc_inputs[Len(qc_inputs) + 1 - j]
           gdf == groups[gi]
           args == SliceArgs(qc.requests, gdf.index)
           kwa == SliceArgs(qc.kwargs, gdf.index)
           full == _apply_qc_to_masked_rows(qc.function, args, kwa, gdf.index, group_mask)
       IN IF InvokeError(qc.function, args, kwa) # NoErr
            THEN /\ Raise(InvokeError(qc.function, args, kwa))
                 /\ UNCHANGED <<results, group_mask, mask, j, trace>>
            ELSE /\ results' = AssignColumn(results, gdf.index, qc.name, full)
                 /\ group_mask' = ShrinkMask(group_mask, full, return_method)
                 /\ mask' = ShrinkMask(mask, full, return_method)
                 /\ j' = j + 1
                 /\ trace' = Append(trace,
                       Event("check", qc.name, gi, gdf.index, Merge(args, kwa),
                             CallFunction(qc.function, Merge(args, kwa))))
                 /\ pc' = pc /\ err' = err
    /\ UNCHANGED <<inputs, frame, is_series, preprocessed, qc_inputs, groups,
                   gi, pi, qi, ret>>

\* mutant: the global mask is updated as a whole: every row of the table is
\* deactivated as soon as a row of the group is
InvokeCheckMaskingTable ==
    /\ pc = "checks"
    /\ j <= Len(qc_inputs)
    /\ MaskAny(group_mask)
    /\ LET qc == qc_inputs[j]
           gdf == groups[gi]
           args == SliceArgs(qc.requests, gdf.index)
           kwa == SliceArgs(qc.kwargs, gdf.index)
           full == _apply_qc_to_masked_rows(qc.function, args, kwa, gdf.index, group_mask)
       IN IF InvokeError(qc.function, args, kwa) # NoErr
            THEN /\ Raise(InvokeError(qc.function, args, kwa))
                 /\ UNCHANGED <<results, group_mask, mask, j, trace>>
            ELSE /\ results' = AssignColumn(results, gdf.index, qc.name, full)
                 /\ group_mask' = ShrinkMask(group_mask, full, return_method)
                 /\ mask' = [r \in DOMAIN mask |->
                                mask[r] /\ \A q \in DOMAIN full :
                                    ShrinkMask(mask, full, return_method)[q]]
                 /\ j' = j + 1
                 /\ trace' = Append(trace,
                       Event("check", qc.name, gi, gdf.index, Merge(args, kwa),
                             CallFunction(qc.function, Merge(args, kwa))))
                 /\ pc' = pc /\ err' = err
    /\ UNCHANGED <<inputs, frame, is_series, preprocessed, qc_inputs, groups,
                   gi, pi, qi, ret>>

\* lines 623-645: one iteration of the loop over the checks which invokes
\* the callable on the group, writes its column and updates both masks
InvokeCheck ==
    /\ pc = "checks"
    /\ j <= Len(qc_inputs)
    /\ MaskAny(group_mask)
    /\ LET qc == qc_inputs[j]
           gdf == groups[gi]
           args == SliceArgs(qc.requests, gdf.index)
           kwa == SliceArgs(qc.kwargs, gdf.index)
           full == _apply_qc_to_masked_rows(qc.function, args, kwa, gdf.index, group_mask)
       IN IF InvokeError(qc.function, args, kwa) # NoErr
            THEN /\ Raise(InvokeError(qc.function, args, kwa))
                 /\ UNCHANGED <<results, group_mask, mask, j, trace>>
            ELSE /\ results' = AssignColumn(results, gdf.index, qc.name, full)
                 /\ group_mask' = ShrinkMask(group_mask, full, return_method)
                 /\ mask' = ShrinkMask(mask, full, return_method)
                 /\ j' = j + 1
                 /\ trace' = Append(trace,
                       Event("check", qc.name, gi, gdf.index, Merge(args, kwa),
                             CallFunction(qc.function, Merge(args, kwa))))
                 /\ pc' = pc /\ err' = err
    /\ UNCHANGED <<inputs, frame, is_series, preprocessed, qc_inputs, groups,
                   gi, pi, qi, ret>>

\* mutant: the engine loop ends when a group has no active row left
\* (return instead of break)
EarlyExitEndsEngine ==
    /\ pc = "checks"
    /\ j <= Len(qc_inputs)
    /\ ~MaskAny(group_mask)
    /\ pc' = "groups"
    /\ gi' = Len(groups)
    /\ UNCHANGED <<inputs, frame, is_series, preprocessed, qc_inputs, groups,
                   mask, results, group_mask, j, pi, qi, err, ret, trace>>

\* lines 624-625: no active row is left in the group: break
EarlyExit ==
    /\ pc = "checks"
    /\ j <= Len(qc_inputs)
    /\ ~MaskAny(group_mask)
    /\ pc' = "groups"
    /\ UNCHANGED <<inputs, frame, is_series, preprocessed, qc_inputs, groups,
                   mask, results, group_mask, gi, j, pi, qi, err, ret, trace>>

\* line 623: the loop over the checks is exhausted
GroupDone ==
    /\ pc = "checks"
    /\ j > Len(qc_inputs)
    /\ pc' = "groups"
    /\ UNCHANGED <<inputs, frame, is_series, preprocessed, qc_inputs, groups,
                   mask, results, group_mask, gi, j, pi, qi, err, ret, trace>>

\* mutant: the flags are written as new columns of the caller's table
ReturnFlagsInTable ==
    /\ pc = "groups"
    /\ gi = Len(groups)
    /\ data' = [data EXCEPT !.columns = data.columns \cup Range(results.columns)]
    /\ IF is_series
         THEN IF Len(results.index) = 0
                THEN Raise(Err("IndexError", "iloc")) /\ ret' = ret
                ELSE /\ ret' = [kind |-> "series",
                                 value |-> [index |-> results.columns,
                                            val |-> results.cell[results.index[1]]]]
                     /\ pc' = "done" /\ err' = err
         ELSE /\ ret' = [kind |-> "frame", value |-> results]
              /\ pc' = "done" /\ err' = err
    /\ UNCHANGED <<groupby, qc_dict, preproc_dict, return_method, first,
                   call, verdict, frame, is_series, preprocessed, qc_inputs, groups,
                   mask, results, group_mask, gi, j, pi, qi, trace>>

\* lines 647 and 706: the Flag Matrix, or its first row for a Series input
Return ==
    /\ pc = "groups"
    /\ gi = Len(groups)
    /\ IF is_series
         THEN IF Len(results.index) = 0
                THEN Raise(Err("IndexError", "iloc")) /\ ret' = ret
                ELSE /\ ret' = [kind |-> "series",
                                 value |-> [index |-> results.columns,
                                            val |-> results.cell[results.index[1]]]]
                     /\ pc' = "done" /\ err' = err
         ELSE /\ ret' = [kind |-> "frame", value |-> results]
              /\ pc' = "done" /\ err' = err
    /\ UNCHANGED <<inputs, frame, is_series, preprocessed, qc_inputs, groups,
                   mask, results, group_mask, gi, j, pi, qi, trace>>

(***************************************************************************)
(* Inputs of the model                                                     *)
(***************************************************************************)
\* a table with index idx whose row at position i has key ks[i], value vs[i]
\* and which was reported at position r and hour r
MkTable(idx, ks, vs) ==
    [isSeries |-> FALSE, columns |-> Columns, index |-> idx,
     cell |-> [r \in Range(idx) |->
                 [k |-> ks[CHOOSE i \in DOMAIN idx : idx[i] = r],
                  v |-> vs[CHOOSE i \in DOMAIN idx : idx[i] = r],
                  lat |-> r, lon |-> r, date |-> r]]]

\* a Series named "v" with index 1..n
MkSeries(vs) ==
    [isSeries |-> TRUE, columns |-> {"v"}, index |-> [i \in 1..Len(vs) |-> i],
     cell |-> [r \in 1..Len(vs) |-> [k |-> "A", v |-> vs[r], lat |-> r, lon |-> r, date |-> r]]]

Ascending(n) == [i \in 1..n |-> i]
Descending(n) == [i \in 1..n |-> n + 1 - i]

\* tables of up to MaxRows rows, any keys and values
KeyedTables ==
    UNION {{MkTable(Ascending(n), ks, vs) : ks \in [1..n -> Keys], vs \in [1..n -> Values]}
           : n \in 0..MaxRows}

\* tables of up to MaxRows rows of a single key, in both index orders
PlainTables ==
    UNION {{MkTable(idx, [i \in 1..n |-> "A"], vs) :
              idx \in {Ascending(n), Descending(n)}, vs \in [1..n -> Values]}
           : n \in 0..MaxRows}

SeriesInputs == UNION {{MkSeries(vs) : vs \in [1..n -> Values]} : n \in 0..MaxRows}

\* grouping objects built by the caller on another frame: one that covers
\* rows 1..3, one that interleaves and leaves rows out, one with rows the
\* table may not have
ExternalGroupBys ==
    { External(<<Group("x", <<1, 3>>), Group("y", <<2>>)>>),
      External(<<Group("x", <<2>>), Group("y", <<4, 5>>)>>),
      External(<<Group("x", <<3, 1>>), Group("y", <<5>>), Group("z", <<2, 4>>)>>) }

HardLimit(key, lo, hi) ==
    Descriptor(key, TRUE, "do_hard_limit_check", << <<"value", "v">> >>,
               << <<"limits", Lit(<<lo, hi>>)>> >>, <<>>)

\* a check of a report against its neighbours in time, with the names and
\* the arguments of the sequential test (delta_t of 2 hours)
Spike(key) ==
    Descriptor(key, TRUE, "do_spike_check",
               << <<"value", "v">>, <<"lat", "lat">>, <<"lon", "lon">>, <<"date", "date">> >>,
               << <<"max_gradient_space", Lit(<<1>>)>>, <<"max_gradient_time", Lit(<<1>>)>>,
                  <<"delta_t", Lit(<<2>>)>>, <<"n_neighbours", Lit(<<5>>)>> >>, <<>>)

MissingValue(key) ==
    Descriptor(key, TRUE, "do_missing_value_check", << <<"value", "v">> >>, <<>>, <<>>)

ClimCheck(key) ==
    Descriptor(key, TRUE, "do_climatology_check", << <<"value", "v">> >>,
               << <<"climatology", Placeholder>>, <<"maximum_anomaly", Lit(<<1>>)>> >>, <<>>)

EmptyConfig == Config(<<>>)

\* three checks: a row-local one, a group-context one, a row-local one
QcThree == Config(<<HardLimit("test1", 2, 2), Spike("test2"), HardLimit("test3", 1, 1)>>)

\* three row-local checks of the one column a Series has
QcThreeOnValue ==
    Config(<<HardLimit("test1", 2, 2), MissingValue("test2"), HardLimit("test3", 1, 1)>>)

\* a check fed by a preprocessed variable, then a row-local one
QcClim == Config(<<ClimCheck("test1"), HardLimit("test2", 1, 1)>>)

\* preprocessing of "climatology" by a row-local callable
PreprocLocal == Config(<<HardLimit("climatology", 2, 2)>>)

\* preprocessing of "climatology" by a callable that looks at all rows
PreprocGlobal == Config(<<Spike("climatology")>>)

\* <<qc_dict, preproc_dict>> pairs that resolve without error
ValidConfigs ==
    { <<QcThree, EmptyConfig>>, <<QcClim, PreprocLocal>>,
      <<QcClim, PreprocGlobal>>, <<EmptyConfig, EmptyConfig>> }

\* descriptors that fail validation, one per kind of failure
BadDescriptors ==
    { Descriptor("bad", FALSE, "", << <<"value", "v">> >>, <<>>, <<>>),
      Descriptor("bad", TRUE, "no_valid_check", <<>>, <<>>, <<>>),
      Descriptor("bad", TRUE, "cast", << <<"value", "v">> >>, <<>>, <<>>),
      Descriptor("bad", TRUE, "do_hard_limit_check", << <<"invalid_param", "v">> >>, <<>>, <<>>),
      Descriptor("bad", TRUE, "do_hard_limit_check", << <<"value", "invalid_value">> >>, <<>>, <<>>),
      Descriptor("bad", TRUE, "do_hard_limit_check", << <<"value", "v">> >>, <<>>, <<>>),
      Descriptor("bad", TRUE, "do_hard_limit_check", << <<"value", "v">> >>,
                 << <<"invalid_args", Lit(<<2, 3>>)>> >>, <<>>),
      [HardLimit("bad", 2, 3) EXCEPT !.keyIsStr = FALSE],
      [HardLimit("bad", 2, 3) EXCEPT !.valIsMapping = FALSE] }

\* check configurations whose second descriptor fails validation, a
\* placeholder nothing preprocessed, and an object that is not a mapping
BadQcDicts ==
    {Config(<<HardLimit("test1", 2, 2), b>>) : b \in BadDescriptors}
    \cup {NotAMapping(TRUE), NotAMapping(FALSE)}

\* a check whose placeholder names a variable nothing preprocesses
QcUnresolvedPlaceholder == Config(<<HardLimit("test1", 2, 2), ClimCheck("bad")>>)

BadPreprocDicts ==
    {Config(<<HardLimit("climatology", 2, 2), b>>) : b \in BadDescriptors}
    \cup {Config(<<Descriptor("bad", TRUE, "do_missing_value_check", <<>>, <<>>,
                               << <<1>>, <<2>> >>)>>),
          NotAMapping(TRUE), NotAMapping(FALSE)}

\* a preprocessing entry whose callable has a parameter **kwargs: a column
\* bound to a name it does not declare and a keyword it does not declare
ClimValue(key) ==
    Descriptor(key, TRUE, "get_climatological_value",
               << <<"climatology", "v">>, <<"anything", "k">> >>,
               << <<"other", Lit(<<1>>)>> >>, <<>>)

\* a descriptor whose callable has a variadic-keyword parameter with another
\* name (**kwds) and is given a keyword it does not declare
LiteralCall(key) ==
    Descriptor(key, TRUE, "Literal", <<>>, << <<"other", Lit(<<1>>)>> >>, <<>>)

\* a check given the keyword "units" its unit-conversion wrapper reserves
HardLimitWithUnits(key) ==
    Descriptor(key, TRUE, "do_hard_limit_check", << <<"value", "v">> >>,
               << <<"limits", Lit(<<1, 1>>)>>, <<"units", Lit(<<1>>)>> >>, <<>>)

\* checks whose keywords are accepted although their signature does not
\* declare them
QcVariadic == Config(<<HardLimitWithUnits("test1"), LiteralCall("test2")>>)

\* a check fed by a preprocessed variable, then one given "units"
QcClimUnits == Config(<<ClimCheck("test1"), HardLimitWithUnits("test2")>>)

\* preprocessing of "climatology" by the callable with **kwargs
PreprocKwargs == Config(<<ClimValue("climatology")>>)

\* a preprocessing entry whose value is bound positionally ("inputs")
PreprocPositional ==
    Config(<<Descriptor("aux", TRUE, "do_hard_limit_check", <<>>,
                        << <<"limits", Lit(<<1, 2>>)>> >>, << <<1>> >>)>>)

\* a derived variable computed from a scalar bound positionally: a scalar
PreprocScalar ==
    Config(<<Descriptor("maximum_anomaly", TRUE, "do_hard_limit_check", <<>>,
                        << <<"limits", Lit(<<2, 2>>)>> >>, << <<1>> >>)>>)

\* a check whose "maximum_anomaly" is that derived scalar, then a row-local
\* one
QcScalarAnomaly ==
    Config(<<Descriptor("test1", TRUE, "do_climatology_check", << <<"value", "v">> >>,
                        << <<"climatology", Lit(<<1>>)>>, <<"maximum_anomaly", Placeholder>> >>,
                        <<>>),
             HardLimit("test2", 1, 1)>>)

\* a check whose arguments are all literals (the callable returns one
\* scalar flag), then a row-local one
QcLiteralValue ==
    Config(<<Descriptor("test1", TRUE, "do_hard_limit_check", <<>>,
                        << <<"value", Lit(<<1>>)>>, <<"limits", Lit(<<1, 2>>)>> >>, <<>>),
             HardLimit("test2", 1, 1)>>)

\* descriptors the signature of their callable rejects, or should accept
SignatureDescriptors ==
    { Descriptor("bad", TRUE, "Literal", << <<"anything", "k">> >>, <<>>, <<>>),
      Descriptor("bad", TRUE, "cast", <<>>,
                 << <<"typ", Lit(<<1>>)>>, <<"val", Lit(<<1>>)>>, <<"units", Lit(<<1>>)>> >>,
                 <<>>),
      Descriptor("bad", TRUE, "get_climatological_value", <<>>,
                 << <<"other", Lit(<<1>>)>> >>, <<>>),
      Descriptor("bad", TRUE, "do_hard_limit_check", << <<"limits", "v">> >>,
                 << <<"invalid_args", Lit(<<2, 3>>)>> >>, <<>>) }

\* a descriptor that gives "value" twice: as a column by "names" and as a
\* literal by "arguments"
ValueByNameAndArgument ==
    Descriptor("bad", TRUE, "do_hard_limit_check", << <<"value", "v">> >>,
               << <<"value", Lit(<<1>>)>>, <<"limits", Lit(<<1, 2>>)>> >>, <<>>)

\* a preprocessing entry that gives "value" twice: positionally by "inputs"
\* and as a column by "names"
ValueByInputAndName ==
    Descriptor("bad", TRUE, "do_hard_limit_check", << <<"value", "v">> >>,
               << <<"limits", Lit(<<1, 2>>)>> >>, << <<1>> >>)

SignatureQcDicts ==
    {Config(<<HardLimit("test1", 2, 2), b>>) :
        b \in SignatureDescriptors \cup {ValueByNameAndArgument}}

SignaturePreprocDicts ==
    {Config(<<b>>) : b \in SignatureDescriptors \cup {ValueByInputAndName}}
    \cup {Config(<<Descriptor("bad", TRUE, "do_hard_limit_check", <<>>, <<>>, << <<1>> >>)>>)}

Input(d, g, q, p, rm) ==
    [data |-> d, groupby |-> g, qc_dict |-> q, preproc_dict |-> p, return_method |-> rm]

\* runs of valid configurations over tables grouped by the column "k"
ColumnRuns ==
    {Input(d, ByColumn("k"), c[1], c[2], rm) :
        d \in KeyedTables, c \in ValidConfigs, rm \in ReturnMethods}

\* runs of valid configurations without grouping or with a caller-built
\* grouping object
PlainRuns ==
    {Input(d, g, c[1], c[2], rm) :
        d \in PlainTables, g \in {NoGroupBy} \cup ExternalGroupBys,
        c \in ValidConfigs, rm \in ReturnMethods}

\* runs on a Series
SeriesRuns ==
    {Input(d, NoGroupBy, c[1], c[2], rm) :
        d \in SeriesInputs, c \in ValidConfigs \cup {<<QcThreeOnValue, EmptyConfig>>},
        rm \in ReturnMethods \cup {"bogus"}}

ErrorTables ==
    { MkTable(<<1, 2>>, <<"A", "B">>, <<1, 2>>), MkSeries(<<>>) }

\* runs that raise: invalid return_method, invalid configurations
ErrorRuns ==
    {Input(d, g, q, PreprocLocal, rm) :
        d \in ErrorTables, g \in {NoGroupBy, ByColumn("k")}, q \in BadQcDicts,
        rm \in ReturnMethods \cup {"bogus"}}
    \cup
    {Input(d, g, QcUnresolvedPlaceholder, EmptyConfig, rm) :
        d \in ErrorTables, g \in {NoGroupBy, ByColumn("k")},
        rm \in ReturnMethods \cup {"bogus"}}
    \cup
    {Input(d, g, QcClim, p, rm) :
        d \in ErrorTables, g \in {NoGroupBy, ByColumn("k")}, p \in BadPreprocDicts,
        rm \in ReturnMethods \cup {"bogus"}}

\* runs that exercise the signatures of the callables: keywords absorbed by
\* a variadic-keyword parameter or reserved by a wrapper, positional binding
SignatureRuns ==
    {Input(d, g, c[1], c[2], rm) :
        d \in {MkTable(<<1, 2>>, <<"A", "B">>, <<1, 2>>), MkTable(<<1, 2>>, <<"A", "A">>, <<NaN, 2>>)},
        g \in {NoGroupBy, ByColumn("k")},
        c \in {<<QcVariadic, EmptyConfig>>, <<QcClimUnits, PreprocKwargs>>,
               <<QcThree, PreprocPositional>>,
               <<QcScalarAnomaly, PreprocScalar>>, <<QcLiteralValue, EmptyConfig>>}
               \cup {<<q, EmptyConfig>> : q \in SignatureQcDicts}
               \cup {<<QcThree, p>> : p \in SignaturePreprocDicts},
        rm \in ReturnMethods}

Inputs == ColumnRuns \cup PlainRuns \cup SeriesRuns \cup ErrorRuns \cup SignatureRuns

NoEarlierCall == [kind |-> "none", ret |-> NoValue, changed |-> {}]

\* no call is under validation
NoCall == [func |-> "", args |-> <<>>, kwargs |-> <<>>]
Pending == Err("", "pending")
NoVerdict == [engine |-> Pending, standalone |-> Pending]

\* the state at the entry of _do_multiple_check for the input inp
Entry(inp) ==
    /\ data = inp.data
    /\ groupby = inp.groupby
    /\ qc_dict = inp.qc_dict
    /\ preproc_dict = inp.preproc_dict
    /\ return_method = inp.return_method
    /\ first = NoEarlierCall
    /\ call = NoCall
    /\ verdict = NoVerdict
    /\ frame = inp.data
    /\ is_series = FALSE
    /\ preprocessed = <<>>
    /\ qc_inputs = <<>>
    /\ groups = <<>>
    /\ mask = <<>>
    /\ results = [index |-> <<>>, columns |-> <<>>, cell |-> <<>>]
    /\ group_mask = <<>>
    /\ gi = 0
    /\ j = 0
    /\ pi = 0
    /\ qi = 0
    /\ pc = "start"
    /\ err = NoErr
    /\ ret = NoValue
    /\ trace = <<>>

Init == \E inp \in Inputs : Entry(inp)

Next ==
    \/ _validate_and_normalize_input
    \/ ValidatePreprocDict
    \/ PreprocessOne
    \/ ValidateQcDict
    \/ PrepareOne
    \/ StartEngine
    \/ NextGroup
    \/ InvokeCheck
    \/ EarlyExit
    \/ GroupDone
    \/ Return

Spec == Init /\ [][Next]_vars

(***************************************************************************)
(* Two calls in a row: the caller keeps the Flag Matrix of a first call,   *)
(* changes the values of the rows of one group and calls again with the    *)
(* same configuration, grouping and return method.                         *)
(***************************************************************************)
\* data with the rows of vs changed: the value vs[r] written to row r, the
\* key written to the column "k" (none written for ""), the hour of the
\* report moved by shift
WithChangedRows(d, vs, key, shift) ==
    [d EXCEPT !.cell = [r \in DOMAIN d.cell |->
        IF r \in DOMAIN vs
          THEN [d.cell[r] EXCEPT !.v = vs[r],
                                 !.k = IF key = "" THEN @ ELSE key,
                                 !.date = @ + shift]
          ELSE d.cell[r]]]

\* the keys the caller may write to the column "k" of the rows it changes:
\* with a caller-built grouping the column is data like any other; with
\* the grouping by "k" the column is the grouping and stays as it is, the
\* groups of the two calls being the same
KeyChanges(g) == IF g.kind = "external" THEN {"", "A", "B"} ELSE {""}

\* the hours the caller may move the reports it changes by: none, or more
\* than the window of the spike check
DateShift == MaxRows

CallAgainWithVariant ==
    /\ pc = "done"
    /\ first.kind = "none"
    /\ ret.kind = "frame"
    /\ \E g \in 1..Len(groups) : \E vs \in [Range(groups[g].index) -> {1, 2}] :
       \E key \in KeyChanges(groupby) : \E shift \in {0, DateShift} :
          /\ data' = WithChangedRows(data, vs, key, shift)
          /\ frame' = WithChangedRows(data, vs, key, shift)
          /\ first' = [kind |-> "variant", ret |-> ret, changed |-> Range(groups[g].index)]
    /\ is_series' = FALSE
    /\ preprocessed' = <<>>
    /\ qc_inputs' = <<>>
    /\ groups' = <<>>
    /\ mask' = <<>>
    /\ results' = [index |-> <<>>, columns |-> <<>>, cell |-> <<>>]
    /\ group_mask' = <<>>
    /\ gi' = 0
    /\ j' = 0
    /\ pi' = 0
    /\ qi' = 0
    /\ pc' = "start"
    /\ err' = NoErr
    /\ ret' = NoValue
    /\ trace' = <<>>
    /\ UNCHANGED <<groupby, qc_dict, preproc_dict, return_method, call, verdict>>

\* the tables of the first call: no missing key, no missing value
FirstCallTables ==
    UNION {{MkTable(Ascending(n), ks, vs) : ks \in [1..n -> {"A", "B"}], vs \in [1..n -> {1, 2}]}
           : n \in 0..MaxRows}

\* calls on tables grouped by the column "k" or by a caller-built object
VariantRuns ==
    {Input(d, g, c[1], c[2], rm) :
        d \in FirstCallTables,
        g \in {ByColumn("k"),
               External(<<Group("x", <<3, 1>>), Group("y", <<5>>), Group("z", <<2, 4>>)>>)},
        c \in ValidConfigs \ {<<EmptyConfig, EmptyConfig>>}, rm \in ReturnMethods}

InitVariant == \E inp \in VariantRuns : Entry(inp)

NextVariant ==
    \/ Next
    \/ CallAgainWithVariant

SpecVariant == InitVariant /\ [][NextVariant]_vars

(***************************************************************************)
(* The same call made twice: the caller keeps the outcome of a first call  *)
(* and calls the entry point again with the same objects.  Nothing of the  *)
(* first call is left but what it returned and what it wrote to the        *)
(* caller's objects: every local of the second call is new.                *)
(***************************************************************************)
CallAgain ==
    /\ pc \in {"done", "error"}
    /\ first.kind = "none"
    /\ first' = [kind |-> "same", ret |-> ret, changed |-> {}, err |-> err]
    /\ frame' = data
    /\ is_series' = FALSE
    /\ preprocessed' = <<>>
    /\ qc_inputs' = <<>>
    /\ groups' = <<>>
    /\ mask' = <<>>
    /\ results' = [index |-> <<>>, columns |-> <<>>, cell |-> <<>>]
    /\ group_mask' = <<>>
    /\ gi' = 0
    /\ j' = 0
    /\ pi' = 0
    /\ qi' = 0
    /\ pc' = "start"
    /\ err' = NoErr
    /\ ret' = NoValue
    /\ trace' = <<>>
    /\ UNCHANGED <<data, groupby, qc_dict, preproc_dict, return_method,
                   call, verdict>>

InitTwice ==
    \E inp \in VariantRuns \cup SeriesRuns \cup ErrorRuns \cup SignatureRuns : Entry(inp)

NextTwice ==
    \/ Next
    \/ CallAgain

SpecTwice == InitTwice /\ [][NextTwice]_vars

(***************************************************************************)
(* The same table processed as a single group and then partitioned by the  *)
(* column "k", with the same configuration and return method               *)
(* (test_run_qc_engine).                                                   *)
(***************************************************************************)
CallAgainGrouped ==
    /\ pc = "done"
    /\ first.kind = "none"
    /\ groupby = NoGroupBy
    /\ ret.kind = "frame"
    /\ groupby' = ByColumn("k")
    /\ first' = [kind |-> "regrouped", ret |-> ret, changed |-> {}]
    /\ frame' = data
    /\ is_series' = FALSE
    /\ preprocessed' = <<>>
    /\ qc_inputs' = <<>>
    /\ groups' = <<>>
    /\ mask' = <<>>
    /\ results' = [index |-> <<>>, columns |-> <<>>, cell |-> <<>>]
    /\ group_mask' = <<>>
    /\ gi' = 0
    /\ j' = 0
    /\ pi' = 0
    /\ qi' = 0
    /\ pc' = "start"
    /\ err' = NoErr
    /\ ret' = NoValue
    /\ trace' = <<>>
    /\ UNCHANGED <<data, qc_dict, preproc_dict, return_method, call, verdict>>

\* three checks whose flag for a row is computed from that row alone, the
\* second one fed by a preprocessed variable
QcRowLocal ==
    Config(<<HardLimit("test1", 2, 2), ClimCheck("test2"), HardLimit("test3", 1, 1)>>)

\* calls without grouping on tables that have the column "k"
UngroupedRuns ==
    {Input(d, NoGroupBy, QcRowLocal, PreprocLocal, rm) :
        d \in KeyedTables, rm \in ReturnMethods}

InitRegrouped == \E inp \in UngroupedRuns : Entry(inp)

NextRegrouped ==
    \/ Next
    \/ CallAgainGrouped

SpecRegrouped == InitRegrouped /\ [][NextRegrouped]_vars

(***************************************************************************)
(* The Contract Validator on its own: a resolved call (a callable, its     *)
(* positional and its keyword arguments) is handed to the validator of the *)
(* engine (multiple_checks._validate_args) and to the validator with type  *)
(* hints (validations.validate_args).                                      *)
(***************************************************************************)
SampleCallables ==
    {"sample_func_short", "sample_func_kwargs", "sample_func_args",
     "sample_func_pair", "sample_func_args_kwonly"}

ArgumentValues == {ValueOfClass("int"), ValueOfClass("str"), ValueOfClass("bool")}

\* up to MaxArgs positional arguments
PositionalArguments == UNION {[1..n -> ArgumentValues] : n \in 0..MaxArgs}

\* up to two keyword arguments, in their order of insertion
KeywordArguments ==
    {<<>>}
    \cup {<< <<k, v>> >> : k \in {"a", "b", "extra"}, v \in ArgumentValues}
    \cup {<< <<"a", v>>, <<"b", w>> >> : v, w \in ArgumentValues}
    \cup {<< <<"b", v>>, <<"extra", w>> >> : v, w \in ArgumentValues}

ValidatorCalls ==
    {[func |-> f, args |-> a, kwargs |-> k] :
        f \in SampleCallables, a \in PositionalArguments, k \in KeywordArguments}

\* the call c is about to be validated; no engine is running
InitValidator ==
    \E c \in ValidatorCalls :
        /\ call = c
        /\ verdict = NoVerdict
        /\ pc = "validate"
        /\ data = MkTable(<<>>, <<>>, <<>>)
        /\ groupby = NoGroupBy
        /\ qc_dict = EmptyConfig
        /\ preproc_dict = EmptyConfig
        /\ return_method = "all"
        /\ first = NoEarlierCall
        /\ frame = MkTable(<<>>, <<>>, <<>>)
        /\ is_series = FALSE
        /\ preprocessed = <<>>
        /\ qc_inputs = <<>>
        /\ groups = <<>>
        /\ mask = <<>>
        /\ results = [index |-> <<>>, columns |-> <<>>, cell |-> <<>>]
        /\ group_mask = <<>>
        /\ gi = 0
        /\ j = 0
        /\ pi = 0
        /\ qi = 0
        /\ err = NoErr
        /\ ret = NoValue
        /\ trace = <<>>

\* multiple_checks._validate_args(func, args, kwargs)
ValidateForEngine ==
    /\ pc = "validate"
    /\ verdict.engine = Pending
    /\ verdict' = [verdict EXCEPT
                      !.engine = _validate_args(call.func, Len(call.args), KeysOf(call.kwargs))]
    /\ UNCHANGED <<data, groupby, qc_dict, preproc_dict, return_method, first,
                   call, frame, is_series, preprocessed, qc_inputs, groups,
                   mask, results, group_mask, gi, j, pi, qi, pc, err, ret, trace>>

\* validations.validate_args(func, args, kwargs)
ValidateStandalone ==
    /\ pc = "validate"
    /\ verdict.standalone = Pending
    /\ verdict' = [verdict EXCEPT
                      !.standalone = validate_args(call.func, call.args, call.kwargs)]
    /\ UNCHANGED <<data, groupby, qc_dict, preproc_dict, return_method, first,
                   call, frame, is_series, preprocessed, qc_inputs, groups,
                   mask, results, group_mask, gi, j, pi, qi, pc, err, ret, trace>>

NextValidator ==
    \/ ValidateForEngine
    \/ ValidateStandalone

SpecValidator == InitValidator /\ [][NextValidator]_vars

TypeOK ==
    /\ pc \in {"start", "preprocess", "preproc_loop", "qc_loop", "groups", "checks", "done", "error",
             "validate"}
    /\ \A r \in DOMAIN results.cell : \A c \in DOMAIN results.cell[r] : results.cell[r][c] \in Flags

(***************************************************************************)
(* Claims                                                                  *)
(***************************************************************************)
\* the engine loop has run to its end
EngineFinished == pc = "done" \/ (pc = "groups" /\ gi = Len(groups))

\* the flag a returned value gives row r: the element of a Series for r, a
\* scalar itself
FlagFor(out, r) == IF IsSeries(out) THEN out.val[r] ELSE out.val[1]

\* the flag the check at position c returns for row r when it is invoked on
\* the group g (with the arguments sliced to the rows of g)
Returned(g, c, r) ==
    FlagFor(CallFunction(qc_inputs[c].function,
                 Merge(SliceArgs(qc_inputs[c].requests, groups[g].index),
                       SliceArgs(qc_inputs[c].kwargs, groups[g].index))),
            r)

RECURSIVE Active(_, _, _)
\* row r of group g is still active when the check at position c is
\* reached: no earlier check gave it the flag that gates return_method
Active(g, c, r) ==
    IF c = 1 THEN TRUE
    ELSE /\ Active(g, c - 1, r)
         /\ \/ return_method = "all"
            \/ return_method = "passed" /\ Returned(g, c - 1, r) # passed
            \/ return_method = "failed" /\ Returned(g, c - 1, r) # failed

\* the check at position c was invoked on group g and returned flag f for r
InvokedWith(g, c, r, f) ==
    \E e \in DOMAIN trace :
        /\ trace[e].kind = "check"
        /\ trace[e].gi = g
        /\ trace[e].name = qc_inputs[c].name
        /\ FlagFor(trace[e].out, r) = f

\* C1: when the engine has finished, for every group g, check c and row r of
\* g, the cell (r, c) holds the flag the callable returned for r when it was
\* invoked on g if r was still active when c was reached, and untested
\* otherwise.
C1_CellIsReturnedFlagOrUntested ==
    EngineFinished =>
        \A g \in 1..Len(groups) : \A c \in 1..Len(qc_inputs) :
            \A r \in Range(groups[g].index) :
                IF Active(g, c, r)
                  THEN InvokedWith(g, c, r, results.cell[r][qc_inputs[c].name])
                  ELSE results.cell[r][qc_inputs[c].name] = untested

\* a finished run over two groups in which a row stayed active up to the
\* last check and got a flag there, while another row was deactivated
C1_Witness ==
    /\ pc = "done"
    /\ Len(groups) >= 2
    /\ Len(qc_inputs) = 3
    /\ return_method = "passed"
    /\ \E r1, r2 \in DOMAIN results.cell :
          /\ results.cell[r1]["test1"] = failed
          /\ results.cell[r1]["test2"] = failed
          /\ results.cell[r1]["test3"] = passed
          /\ results.cell[r2]["test1"] = passed
          /\ results.cell[r2]["test3"] = untested

\* column names of a Flag Matrix from position c on (exclusive)
LaterColumns(res, c) == {res.columns[i] : i \in (c + 1)..Len(res.columns)}

\* C2: in return_method "passed", once a row holds passed in a column every
\* later column holds untested for that row; the same for "failed" and the
\* flag failed.
C2_ShortCircuitMonotonicity ==
    \A r \in DOMAIN results.cell : \A c \in 1..Len(results.columns) :
        /\ (return_method = "passed" /\ results.cell[r][results.columns[c]] = passed)
              => \A d \in LaterColumns(results, c) : results.cell[r][d] = untested
        /\ (return_method = "failed" /\ results.cell[r][results.columns[c]] = failed)
              => \A d \in LaterColumns(results, c) : results.cell[r][d] = untested

\* a returned matrix of a "failed" run with a row that failed the second
\* check after passing the first
C2_Witness ==
    /\ pc = "done"
    /\ return_method = "failed"
    /\ results.columns = <<"test1", "test2", "test3">>
    /\ \E r \in DOMAIN results.cell :
          /\ results.cell[r]["test1"] = passed
          /\ results.cell[r]["test2"] = failed
          /\ results.cell[r]["test3"] = untested

\* the flags of a returned value (a Flag Matrix or the flags of one row)
ReturnedFlags ==
    IF ret.kind = "frame"
      THEN {ret.value.cell[r][c] : r \in DOMAIN ret.value.cell, c \in Range(ret.value.columns)}
    ELSE IF ret.kind = "series"
      THEN {ret.value.val[c] : c \in Range(ret.value.index)}
    ELSE {}

\* every row of the table belongs to a group
GroupsCoverTable == RowIds(frame) = UNION {Range(groups[g].index) : g \in 1..Len(groups)}

\* C3: with return_method "all" the returned Flag Matrix has no untested
\* cell, whatever the table and the grouping (no grouping, a column, a
\* caller-built grouping object).
C3_NoUntestedWithAll ==
    (pc = "done" /\ return_method = "all") => untested \notin ReturnedFlags

\* the check events of the history
CheckEvents == {e \in DOMAIN trace : trace[e].kind = "check"}

\* names of the checks of the configuration, in insertion order
ConfiguredChecks == [i \in 1..Len(qc_dict.entries) |-> qc_dict.entries[i].key]

\* C4: the returned value has as many rows as the table (one row of flags
\* for a Series input) and one column per configured check, in the order of
\* the configuration, whichever checks were invoked.
C4_ShapeInvariant ==
    pc = "done" =>
        IF ret.kind = "frame"
          THEN /\ Len(ret.value.index) = Len(data.index)
               /\ DOMAIN ret.value.cell = Range(ret.value.index)
               /\ ret.value.columns = ConfiguredChecks
               /\ \A r \in DOMAIN ret.value.cell :
                     DOMAIN ret.value.cell[r] = Range(ConfiguredChecks)
          ELSE /\ data.isSeries
               /\ ret.value.index = ConfiguredChecks
               /\ DOMAIN ret.value.val = Range(ConfiguredChecks)

\* a returned matrix of three rows and three columns of a run that left
\* checks out (fewer invocations than groups times checks)
C4_Witness ==
    /\ pc = "done"
    /\ ret.kind = "frame"
    /\ Len(ret.value.index) = 3
    /\ Len(ret.value.columns) = 3
    /\ Len(groups) = 2
    /\ Cardinality(CheckEvents) < 6

\* C5: the row identifiers of the returned Flag Matrix are those of the
\* input table, in the same order, with or without grouping.
C5_RowIdentifiersPreserved ==
    (pc = "done" /\ ret.kind = "frame") => ret.value.index = data.index

\* a returned matrix of a table whose index is not sorted, processed in two
\* groups that interleave in the table
C5_Witness ==
    /\ pc = "done"
    /\ ret.kind = "frame"
    /\ data.index = <<3, 2, 1>>
    /\ Len(groups) = 2
    /\ groups[1].index = <<1, 3>>
    /\ ret.value.index = <<3, 2, 1>>

\* the Flag Matrix row of every row outside the changed group is the same
\* in the two calls
SameRowsOutsideChangedGroup ==
    \A r \in DOMAIN ret.value.cell :
        r \notin first.changed => ret.value.cell[r] = first.ret.value.cell[r]

\* callables whose result for a row is computed from that row alone
RowLocalCallables ==
    {"do_hard_limit_check", "do_climatology_check", "do_missing_value_check",
     "get_climatological_value"}

RowLocalPreprocessing ==
    \A i \in DOMAIN preproc_dict.entries : preproc_dict.entries[i].func \in RowLocalCallables

\* C6 as stated: two calls with the same groups whose tables differ only
\* in the data of the rows of one group return the same flags for the rows
\* of every other group, for any configuration, preprocessing entries
\* included.
C6_NoCrossGroupLeakage_Original ==
    (pc = "done" /\ first.kind = "variant") => SameRowsOutsideChangedGroup

\* C6 (amended): the same, for configurations without preprocessing or whose
\* preprocessing callables compute the derived value of a row from that row
\* alone.
C6_NoCrossGroupLeakageRowLocalPreprocessing ==
    (pc = "done" /\ first.kind = "variant" /\ RowLocalPreprocessing)
        => SameRowsOutsideChangedGroup

\* a second call, with a group-context check and two groups, whose table
\* differs from the first one in the rows of one group and whose flags
\* differ there
C6_Witness ==
    /\ pc = "done"
    /\ first.kind = "variant"
    /\ RowLocalPreprocessing
    /\ Len(groups) = 2
    /\ Len(qc_inputs) = 3
    /\ \E r \in first.changed : ret.value.cell[r] # first.ret.value.cell[r]
    /\ \E r \in DOMAIN ret.value.cell : r \notin first.changed

\* C7: when an invalid return_method is rejected nothing else has been
\* done: no configuration was validated, no descriptor resolved and no
\* preprocessing or check callable invoked; and such a call gets no further.
C7_ReturnMethodRejectedFirst ==
    /\ (pc = "error" /\ err.why = "return_method") => trace = <<>>
    /\ return_method \notin ReturnMethods =>
          (pc \in {"start", "error"} /\ trace = <<>> /\ ret = NoValue)

\* the rejection of return_method "bogus" for a call whose configuration
\* is itself invalid
C7_Witness ==
    /\ pc = "error"
    /\ err = Err("ValueError", "return_method")
    /\ return_method = "bogus"
    /\ _validate_dict(qc_dict) # NoErr
    /\ trace = <<>>

\* the failures of the validation of a descriptor or of the configuration
ValidationFailures ==
    {"not_a_mapping", "non_string_key", "non_mapping_value", "missing_func",
     "unknown_function", "invalid_parameter", "unknown_column",
     "missing_placeholder", "too_many_positional", "unknown_keyword",
     "missing_required"}

\* C8: when the validation of the configuration fails no check callable has
\* been invoked, not even a check that precedes the offending descriptor,
\* and nothing is returned.
C8_ValidationFailsBeforeAnyCheck ==
    (pc = "error" /\ err.why \in ValidationFailures)
        => (CheckEvents = {} /\ ret = NoValue /\ pc # "done")

\* the failure of the second check descriptor (an unknown keyword) after
\* the first one was resolved, with no check invoked
C8_Witness ==
    /\ pc = "error"
    /\ err = Err("ValueError", "unknown_keyword")
    /\ qi = 1
    /\ Len(qc_inputs) = 1
    /\ pi = Len(preproc_dict.entries)
    /\ CheckEvents = {}

\* the invocations of the preprocessing callable of the variable name
PreprocEvents(name) ==
    {e \in DOMAIN trace : trace[e].kind = "preproc" /\ trace[e].name = name}

\* the event e passed whole columns of the table to the callable
CalledOnWholeTable(e) ==
    \A k \in DOMAIN trace[e].kw :
        IsSeries(trace[e].kw[k]) => trace[e].kw[k].index = frame.index

\* C9: no preprocessing descriptor is ever executed twice or on less than
\* the whole table, and when a check callable is invoked every preprocessing
\* descriptor has been executed once, before that invocation, and the map
\* of derived variables holds every configured name.
C9_PreprocessingOnceBeforeChecks ==
    /\ \A i \in DOMAIN preproc_dict.entries :
          /\ Cardinality(PreprocEvents(preproc_dict.entries[i].key)) <= 1
          /\ \A e \in PreprocEvents(preproc_dict.entries[i].key) : CalledOnWholeTable(e)
    /\ CheckEvents # {} =>
          \A i \in DOMAIN preproc_dict.entries :
              /\ Cardinality(PreprocEvents(preproc_dict.entries[i].key)) = 1
              /\ \A e \in PreprocEvents(preproc_dict.entries[i].key) :
                    \A c \in CheckEvents : e < c
              /\ preproc_dict.entries[i].key \in DOMAIN preprocessed

\* a run over two groups of a table of three rows whose checks were invoked
\* after the preprocessing of "climatology"
C9_Witness ==
    /\ Len(preproc_dict.entries) = 1
    /\ Cardinality(PreprocEvents("climatology")) = 1
    /\ Len(frame.index) = 3
    /\ Len(groups) = 2
    /\ gi = 2
    /\ Cardinality(CheckEvents) >= 3

\* C10: a Series input of any length is processed as a table of one row,
\* and the call returns the flags of that row.
C10_SeriesIsOneRowTable ==
    data.isSeries =>
        /\ pc \notin {"start", "error"} => Len(frame.index) = 1
        /\ err.cls # "IndexError"
        /\ pc = "done" =>
              (ret.kind = "series" /\ ret.value.val = results.cell[frame.index[1]])

\* C11: whatever the table and the grouping request, the groups handed to
\* the engine are pairwise disjoint and every row identifier of the table is
\* in exactly one of them.
C11_GroupsPartitionTable ==
    pc \in {"groups", "checks", "done"} =>
        /\ \A g, h \in 1..Len(groups) :
              g # h => Range(groups[g].index) \cap Range(groups[h].index) = {}
        /\ GroupsCoverTable

\* a descriptor is being resolved when the call fails: the last step was
\* the resolution of an entry of one of the two configurations
FailedResolving ==
    /\ pc = "error"
    /\ err.why \in {"missing_func", "unknown_function", "invalid_parameter",
                     "unknown_column", "missing_placeholder", "too_many_positional",
                     "unknown_keyword", "missing_required"}

\* the failure happened while the check configuration was resolved
InCheckConfiguration == \E e \in DOMAIN trace : trace[e].name = "qc_dict"

\* the descriptor whose resolution failed
FailedDescriptor ==
    IF InCheckConfiguration THEN qc_dict.entries[qi + 1] ELSE preproc_dict.entries[pi + 1]

\* the columns a descriptor names that the table does not have
AbsentColumns(d) == {d.names[i][2] : i \in DOMAIN d.names} \ frame.columns

\* the callable of descriptor d exists and accepts every key of "names"
NamesAccepted(d) ==
    /\ d.hasFunc
    /\ _get_function(d.func) = NoErr
    /\ \A i \in DOMAIN d.names : _is_func_param(d.func, d.names[i][1])

\* a callable was invoked for the configuration entry called key
Invoked(key) ==
    \E e \in DOMAIN trace : trace[e].kind \in {"preproc", "check"} /\ trace[e].name = key

\* C12: a descriptor, check or preprocessing entry, whose names reference a
\* column the table does not have is never resolved: its resolution raises
\* a NameError that names an absent column, and its callable is not invoked.
C12_UnknownColumnRaisesNameError ==
    /\ \A i \in 1..pi : AbsentColumns(preproc_dict.entries[i]) = {}
    /\ \A i \in 1..qi : AbsentColumns(qc_dict.entries[i]) = {}
    /\ FailedResolving =>
          /\ (NamesAccepted(FailedDescriptor) /\ AbsentColumns(FailedDescriptor) # {})
                => err.why = "unknown_column"
          /\ err.why = "unknown_column" =>
                /\ err.cls = "NameError"
                /\ err.what \in AbsentColumns(FailedDescriptor)
                /\ ~Invoked(FailedDescriptor.key)

\* a preprocessing entry that names an absent column fails after an earlier
\* entry was preprocessed
C12_Witness ==
    /\ FailedResolving
    /\ ~InCheckConfiguration
    /\ pi = 1
    /\ err = ErrOn("NameError", "unknown_column", "invalid_value")

\* the callable has a variadic-keyword parameter
AcceptsAnyKeyword(fname) ==
    \E i \in DOMAIN FuncSig(fname).params : FuncSig(fname).params[i].kind = "VAR_KEYWORD"

\* the keys of "names" the callable of descriptor d does not accept
UnacceptedNames(d) ==
    IF AcceptsAnyKeyword(d.func) THEN {}
    ELSE {d.names[i][1] : i \in DOMAIN d.names} \ ParamNames(d.func)

\* C13: the resolution of "names" raises ValueError for a key exactly when
\* the callable neither declares it nor has a variadic-keyword parameter,
\* whatever the name of that parameter.
C13_InvalidParameterIffNotAccepted ==
    /\ \A i \in 1..pi : UnacceptedNames(preproc_dict.entries[i]) = {}
    /\ \A i \in 1..qi : UnacceptedNames(qc_dict.entries[i]) = {}
    /\ (FailedResolving /\ err.why = "invalid_parameter") =>
          /\ err.cls = "ValueError"
          /\ err.what \in UnacceptedNames(FailedDescriptor)

\* the flag that deactivates a row under the return method
GatingFlag == IF return_method = "passed" THEN passed ELSE failed

\* C14: with return_method "passed" or "failed", a row whose cell for a
\* check holds untestable, or the one of passed and failed that the method
\* ignores, is tested by the next check: its cell there is the flag the
\* callable returned, not untested.
C14_OnlyGatingFlagDeactivates ==
    (EngineFinished /\ return_method \in {"passed", "failed"}) =>
        \A g \in 1..Len(groups) : \A c \in 1..(Len(qc_inputs) - 1) :
            \A r \in Range(groups[g].index) :
                results.cell[r][qc_inputs[c].name] \in (Flags \ {GatingFlag, untested})
                    => /\ results.cell[r][qc_inputs[c + 1].name] = Returned(g, c + 1, r)
                       /\ results.cell[r][qc_inputs[c + 1].name] # untested
                       /\ InvokedWith(g, c + 1, r, Returned(g, c + 1, r))

\* a finished run with return_method "failed" in which a row was untestable
\* for the first check and another passed it, and both were tested by the
\* two later checks
C14_Witness ==
    /\ pc = "done"
    /\ return_method = "failed"
    /\ results.columns = <<"test1", "test2", "test3">>
    /\ \E r, q \in DOMAIN results.cell :
          /\ results.cell[r]["test1"] = untestable
          /\ results.cell[q]["test1"] = passed
          /\ results.cell[r]["test3"] # untested
          /\ results.cell[q]["test3"] # untested

\* C15: the second of two calls with the same table, configuration,
\* grouping and return method ends like the first one: it returns the same
\* Flag Matrix, or raises the same error.
C15_Idempotence ==
    (pc \in {"done", "error"} /\ first.kind = "same") =>
        /\ ret = first.ret
        /\ err = first.err

\* a second call over two groups that returned a Flag Matrix in which the
\* short circuit left cells untested
C15_Witness ==
    /\ pc = "done"
    /\ first.kind = "same"
    /\ ret.kind = "frame"
    /\ Len(groups) = 2
    /\ return_method = "passed"
    /\ \E r \in DOMAIN ret.value.cell : \E c \in DOMAIN ret.value.cell[r] :
          ret.value.cell[r][c] = untested
    /\ \E r \in DOMAIN ret.value.cell : \E c \in DOMAIN ret.value.cell[r] :
          ret.value.cell[r][c] = failed

\* C16: no step of a call changes the caller's table (its columns, its row
\* identifiers and their order, its values), whether the call returns or
\* raises; for a table input the table the engine works on is the caller's.
C16_InputTableUnchanged ==
    [][/\ data' = data
       /\ ~data.isSeries => frame' = data]_vars

\* a finished call on a table of three rows that preprocessed a variable
\* and wrote flags
C16_Witness ==
    /\ pc = "done"
    /\ ~data.isSeries
    /\ Len(data.index) = 3
    /\ DOMAIN preprocessed # {}
    /\ \E r \in DOMAIN results.cell : \E c \in DOMAIN results.cell[r] :
          results.cell[r][c] \in {passed, failed}
    /\ frame = data

\* the value of the key k of the "arguments" of descriptor d
ArgumentOf(d, k) == d.arguments[ValueOf(d.arguments, k)][2]

\* the keyword arguments of a resolved check are its "arguments" with every
\* placeholder replaced by the preprocessed variable of that name
Substituted(c) ==
    LET d == qc_dict.entries[c]
    IN \A k \in KeysOf(d.arguments) :
          IF ArgumentOf(d, k).ph
            THEN /\ k \in DOMAIN preprocessed
                 /\ qc_inputs[c].kwargs[k] = preprocessed[k]
            ELSE qc_inputs[c].kwargs[k] = Literal(ArgumentOf(d, k).val)

\* the invocation e of the check at position c received the substituted
\* arguments: the literals unchanged, the preprocessed variable with its
\* value for every row of the invocation
InvokedWithSubstituted(e, c) ==
    LET d == qc_dict.entries[c]
    IN \A k \in KeysOf(d.arguments) :
          IF ArgumentOf(d, k).ph
            THEN IF IsSeries(preprocessed[k])
                   THEN \A r \in Range(trace[e].index) :
                           trace[e].kw[k].val[r] = preprocessed[k].val[r]
                   ELSE trace[e].kw[k] = preprocessed[k]
            ELSE trace[e].kw[k] = Literal(ArgumentOf(d, k).val)

\* C17: every resolved check holds, and is invoked with, its literal
\* arguments unchanged and the preprocessed variable in place of each
\* placeholder; a placeholder that names no preprocessed variable raises a
\* KeyError before any check is invoked.
C17_PlaceholderSubstitution ==
    /\ \A c \in 1..qi : Substituted(c)
    /\ \A e \in CheckEvents : \A c \in 1..qi :
          trace[e].name = qc_inputs[c].name => InvokedWithSubstituted(e, c)
    /\ (FailedResolving /\ err.why = "missing_placeholder") =>
          /\ err.cls = "KeyError"
          /\ CheckEvents = {}
          /\ \E k \in KeysOf(FailedDescriptor.arguments) :
                ArgumentOf(FailedDescriptor, k).ph /\ k \notin DOMAIN preprocessed
    /\ (FailedResolving /\ InCheckConfiguration /\ NamesAccepted(FailedDescriptor)
          /\ AbsentColumns(FailedDescriptor) = {}
          /\ \E k \in KeysOf(FailedDescriptor.arguments) :
                ArgumentOf(FailedDescriptor, k).ph /\ k \notin DOMAIN preprocessed)
         => err.why = "missing_placeholder"

\* a check invoked on the second of two groups with the preprocessed
\* "climatology" and the literal "maximum_anomaly"
C17_Witness ==
    /\ pc = "checks"
    /\ gi = 2
    /\ \E e \in CheckEvents :
          /\ trace[e].gi = 2
          /\ "climatology" \in DOMAIN trace[e].kw
          /\ trace[e].kw["maximum_anomaly"] = Literal(<<1>>)
          /\ Len(trace[e].index) = 2

\* the parameters of a callable that have no default and are not variadic
RequiredParams(fname) ==
    {FuncSig(fname).params[i].name : i \in
        {n \in DOMAIN FuncSig(fname).params :
            /\ ~FuncSig(fname).params[n].hasDefault
            /\ FuncSig(fname).params[n].kind \notin {"VAR_POSITIONAL", "VAR_KEYWORD"}}}

\* the keywords descriptor d supplies: the keys of "names" and "arguments"
SuppliedKeywords(d) == KeysOf(d.names) \cup KeysOf(d.arguments)

\* the parameters the positional arguments of descriptor d are bound to
\* ("inputs" are only read for a preprocessing entry)
BoundPositionally(d, isCheck) ==
    IF isCheck THEN {} ELSE DOMAIN BindPositional(d.func, d.inputs)

\* the required parameters descriptor d supplies in neither way
MissingRequired(d, isCheck) ==
    RequiredParams(d.func) \ (SuppliedKeywords(d) \cup BoundPositionally(d, isCheck))

\* C18: a descriptor that leaves a required parameter (no default, not
\* variadic) out of both its positional and its keyword arguments is never
\* resolved, and the TypeError for a missing required parameter is raised
\* only for such a descriptor.
C18_MissingRequiredRejected ==
    /\ \A i \in 1..pi : MissingRequired(preproc_dict.entries[i], FALSE) = {}
    /\ \A i \in 1..qi : MissingRequired(qc_dict.entries[i], TRUE) = {}
    /\ (FailedResolving /\ err.why = "missing_required") =>
          /\ err.cls = "TypeError"
          /\ MissingRequired(FailedDescriptor, InCheckConfiguration) # {}

\* a preprocessing entry that binds "value" positionally and gives no
\* "limits" is rejected
C18_Witness ==
    /\ FailedResolving
    /\ err.why = "missing_required"
    /\ ~InCheckConfiguration
    /\ Len(FailedDescriptor.inputs) = 1
    /\ MissingRequired(FailedDescriptor, FALSE) = {"limits"}

\* some handler of some function of the wrapper chain reserves the keyword
ReservedInChain(fname, key) ==
    \E i \in DOMAIN DECORATOR_HANDLERS(fname) :
        \E h \in DECORATOR_HANDLERS(fname)[i] : key \in DECORATOR_KWARGS(h)

\* the keywords of descriptor d that its callable does not declare, that no
\* wrapper reserves and that no variadic-keyword parameter absorbs
UnknownKeywords(d) ==
    {k \in SuppliedKeywords(d) :
        /\ k \notin ParamNames(d.func)
        /\ ~ReservedInChain(d.func, k)
        /\ ~AcceptsAnyKeyword(d.func)}

\* C19: a descriptor with a keyword that is not a declared parameter, not
\* reserved by a handler anywhere in the wrapper chain and not absorbed by
\* a variadic-keyword parameter is never resolved, and the ValueError for an
\* unknown keyword is raised only for such a descriptor.
C19_UnknownKeywordRejected ==
    /\ \A i \in 1..pi : UnknownKeywords(preproc_dict.entries[i]) = {}
    /\ \A i \in 1..qi : UnknownKeywords(qc_dict.entries[i]) = {}
    /\ (FailedResolving /\ err.why = "unknown_keyword") =>
          /\ err.cls = "ValueError"
          /\ UnknownKeywords(FailedDescriptor) # {}

\* the keyword "units" is rejected for a callable that has no wrapper to
\* reserve it
C19_Witness ==
    /\ FailedResolving
    /\ err.why = "unknown_keyword"
    /\ InCheckConfiguration
    /\ FailedDescriptor.func = "cast"
    /\ UnknownKeywords(FailedDescriptor) = {"units"}

\* the structural failures of a configuration
StructuralFailures == {"not_a_mapping", "non_string_key", "non_mapping_value", "missing_func"}

\* the entries of the preprocessing configuration whose callable was invoked
PreprocessedEntries ==
    {i \in DOMAIN preproc_dict.entries : PreprocEvents(preproc_dict.entries[i].key) # {}}

\* C20 as stated: when a structural configuration error is raised, in the
\* check or in the preprocessing configuration, no configured callable,
\* preprocessing or check, has been invoked.
C20_StructuralErrorBeforeAnyCallable_Original ==
    (pc = "error" /\ err.why \in StructuralFailures) =>
        \A e \in DOMAIN trace : trace[e].kind \notin {"preproc", "check"}

\* C20 (amended): when a structural configuration error is raised no check
\* callable has been invoked.  A preprocessing configuration that is not a
\* mapping, or has a non-string key or a non-mapping value, has none of its
\* callables invoked; a preprocessing entry without "func" fails after the
\* callables of the entries before it were invoked, and a structural error
\* of the check configuration is raised after every preprocessing callable
\* was invoked.
C20_StructuralErrorBeforeAnyCheck ==
    /\ _validate_dict(OrEmpty(preproc_dict)) # NoErr =>
          \A e \in DOMAIN trace : trace[e].kind \notin {"preproc", "check"}
    /\ (pc = "error" /\ err.why \in StructuralFailures) =>
          /\ CheckEvents = {}
          /\ PreprocessedEntries = 1..pi
          /\ InCheckConfiguration => pi = Len(preproc_dict.entries)

\* a check configuration that is not a mapping fails after the
\* preprocessing callable was invoked
C20_Witness ==
    /\ pc = "error"
    /\ err.why = "not_a_mapping"
    /\ InCheckConfiguration
    /\ PreprocessedEntries = {1}
    /\ Len(frame.index) = 2

\* the position, in the configuration, of the check the event e invoked
CheckOf(e) == CHOOSE c \in 1..Len(qc_inputs) : qc_inputs[c].name = trace[e].name

\* the column the key k of "names" of descriptor d is bound to
ColumnOf(d, k) == d.names[ValueOf(d.names, k)][2]

\* the invocation e received, for every key of "names", the slice of the
\* bound column for the rows of its group, in the order of the group
ColumnsSlicedToGroup(e) ==
    LET d == qc_dict.entries[CheckOf(e)]
    IN \A k \in KeysOf(d.names) :
          /\ trace[e].kw[k] = SeriesLoc(Column(frame, ColumnOf(d, k)), groups[trace[e].gi].index)
          /\ trace[e].kw[k].index = groups[trace[e].gi].index
          /\ \A r \in Range(trace[e].kw[k].index) :
                trace[e].kw[k].val[r] = frame.cell[r][ColumnOf(d, k)]

\* the invocation e received every literal of "arguments" as configured
LiteralsUnsliced(e) ==
    LET d == qc_dict.entries[CheckOf(e)]
    IN \A k \in KeysOf(d.arguments) :
          ~ArgumentOf(d, k).ph => trace[e].kw[k] = Literal(ArgumentOf(d, k).val)

\* C21 as stated: an invoked check receives every column-sourced argument
\* as the slice of the column for all the rows of its group and no other
\* row, and every literal and every preprocessed argument unsliced, as the
\* same value for every group.
C21_ArgumentsSlicedPerGroup_Original ==
    \A e \in CheckEvents :
        /\ ColumnsSlicedToGroup(e)
        /\ LiteralsUnsliced(e)
        /\ \A k \in KeysOf(qc_dict.entries[CheckOf(e)].arguments) :
              ArgumentOf(qc_dict.entries[CheckOf(e)], k).ph
                  => trace[e].kw[k] = preprocessed[k]

\* C21 (amended): an invoked check receives every column-sourced argument
\* as the slice of the column for all the rows of its group, active or not,
\* and no other row; a preprocessed argument that is a Series is sliced to
\* the rows of the group in the same way; a literal argument and a
\* preprocessed argument that is not a Series are passed unsliced, as the
\* same value for every group.
C21_ArgumentsSlicedPerGroup ==
    \A e \in CheckEvents :
        /\ ColumnsSlicedToGroup(e)
        /\ LiteralsUnsliced(e)
        /\ \A k \in KeysOf(qc_dict.entries[CheckOf(e)].arguments) :
              ArgumentOf(qc_dict.entries[CheckOf(e)], k).ph
                  => trace[e].kw[k] =
                        IF IsSeries(preprocessed[k])
                          THEN SeriesLoc(preprocessed[k], groups[trace[e].gi].index)
                          ELSE preprocessed[k]

\* the second check was invoked on the second of two groups, of two rows of
\* which one is no longer active, with a column and a preprocessed Series
\* sliced to the two rows
C21_Witness ==
    /\ pc = "checks"
    /\ gi = 2
    /\ Len(frame.index) = 3
    /\ Len(groups[2].index) = 2
    /\ \E r \in Range(groups[2].index) : ~group_mask[r]
    /\ \E e \in CheckEvents :
          /\ trace[e].gi = 2
          /\ trace[e].name = "test2"
          /\ trace[e].kw["value"].index = groups[2].index
    /\ \E e \in CheckEvents :
          /\ trace[e].gi = 2
          /\ "climatology" \in DOMAIN trace[e].kw
          /\ IsSeries(trace[e].kw["climatology"])
          /\ trace[e].kw["climatology"].index = groups[2].index
          /\ preprocessed["climatology"].index = frame.index

\* a check was invoked on the second of two groups with a preprocessed
\* scalar
ScalarPreprocessedInvoked ==
    /\ gi = 2
    /\ "maximum_anomaly" \in DOMAIN preprocessed
    /\ ~IsSeries(preprocessed["maximum_anomaly"])
    /\ \E e \in CheckEvents :
          /\ trace[e].gi = 2
          /\ "maximum_anomaly" \in DOMAIN trace[e].kw
          /\ trace[e].kw["maximum_anomaly"] = preprocessed["maximum_anomaly"]

\* the engine has left the group g: its loop over the checks has ended
GroupLeft(g) ==
    \/ pc \in {"groups", "checks"} /\ gi > g
    \/ pc = "groups" /\ gi = g
    \/ pc = "done" /\ g <= Len(groups)

\* the invocations of the check at position c for the group g
InvocationsOf(g, c) ==
    {e \in CheckEvents : trace[e].gi = g /\ trace[e].name = qc_inputs[c].name}

\* some row of the group g is still active when the check c is reached
SomeRowActive(g, c) == \E r \in Range(groups[g].index) : Active(g, c, r)

\* C22: a check is never invoked for a group none of whose rows is active;
\* once the engine has left a group, every check reached with an active row
\* was invoked for it, and every check reached with no active row was not
\* and left untested in the cells of the rows of the group; the groups that
\* follow are processed all the same.
C22_EarlyExit ==
    /\ \A e \in CheckEvents : SomeRowActive(trace[e].gi, CheckOf(e))
    /\ \A g \in 1..Len(groups) : GroupLeft(g) =>
          \A c \in 1..Len(qc_inputs) :
              IF SomeRowActive(g, c)
                THEN InvocationsOf(g, c) # {}
                ELSE /\ InvocationsOf(g, c) = {}
                     /\ \A r \in Range(groups[g].index) :
                           results.cell[r][qc_inputs[c].name] = untested

\* a finished run over two groups: the first group lost its last active row
\* at the first check and the two later checks were not invoked for it; the
\* second group was then processed up to the last check
C22_Witness ==
    /\ pc = "done"
    /\ Len(groups) = 2
    /\ Len(qc_inputs) = 3
    /\ InvocationsOf(1, 1) # {}
    /\ InvocationsOf(1, 2) = {}
    /\ InvocationsOf(1, 3) = {}
    /\ InvocationsOf(2, 3) # {}
    /\ \A r \in Range(groups[1].index) : results.cell[r]["test3"] = untested

\* C23: the invocations of the check callables follow one another in the
\* order of the groups and, within a group, in the order of the
\* configuration: of two invocations the later one is for a later group, or
\* for the same group and a check declared later.  Hence no (group, check)
\* pair is invoked twice and the invocations of a group end before those of
\* the next group begin.
C23_InvocationOrder ==
    /\ \A c \in 1..Len(qc_inputs) : qc_inputs[c].name = qc_dict.entries[c].key
    /\ \A e, f \in CheckEvents :
          e < f =>
              \/ trace[e].gi < trace[f].gi
              \/ trace[e].gi = trace[f].gi /\ CheckOf(e) < CheckOf(f)
    /\ \A e \in CheckEvents : trace[e].gi \in 1..gi

\* a finished run of three checks over two groups, each of the six
\* (group, check) pairs invoked
C23_Witness ==
    /\ pc = "done"
    /\ Len(groups) = 2
    /\ Len(qc_inputs) = 3
    /\ Cardinality(CheckEvents) = 6
    /\ \A g \in 1..2 : \A c \in 1..3 : Cardinality(InvocationsOf(g, c)) = 1

\* no row of the table has a missing value in the column "k"
EveryRowHasAKey == \A r \in RowIds(data) : data.cell[r]["k"] # "NaN"

\* the Flag Matrix of the call partitioned by "k" is that of the call that
\* processed the table as a single group, when no key is missing
SameFlagsWhenEveryRowHasAKey ==
    (pc = "done" /\ first.kind = "regrouped" /\ EveryRowHasAKey) => ret = first.ret

\* a second call, over two groups that interleave in the table, that
\* returned the Flag Matrix of the first one
RegroupedWitness ==
    /\ pc = "done"
    /\ first.kind = "regrouped"
    /\ ret = first.ret
    /\ Len(groups) = 2
    /\ groups[1].index = <<1, 3>>
    /\ return_method = "passed"
    /\ \E r \in DOMAIN ret.value.cell : ret.value.cell[r]["test3"] = untested

\* C24: for checks whose flag for a row depends on that row alone, the call
\* that partitions the table by a column returns the Flag Matrix of the
\* call that processes it as a single group, in each return method.
C24_GroupingInvariance ==
    (pc = "done" /\ first.kind = "regrouped") => ret = first.ret

\* the positional parameters of a callable
PositionalParams(fname) ==
    SelectSeq(FuncSig(fname).params,
              LAMBDA p : p.kind \in {"POSITIONAL_ONLY", "POSITIONAL_OR_KEYWORD"})

\* the callable has a variadic positional parameter
AcceptsAnyPositional(fname) ==
    \E i \in DOMAIN FuncSig(fname).params : FuncSig(fname).params[i].kind = "VAR_POSITIONAL"

\* the call supplies more positional arguments than the callable declares
TooManyPositional == Len(call.args) > Len(PositionalParams(call.func))

\* the verdicts the two validators have given so far
Verdicts == {verdict.engine, verdict.standalone} \ {Pending}

\* C25: each of the two validators rejects with a TypeError (too many
\* positional arguments) a call that supplies more positional arguments
\* than the callable declares, unless the callable has a variadic
\* positional parameter: then the surplus raises no error, neither that
\* TypeError nor an error of the validator's own.
C25_TooManyPositionalRejected ==
    pc = "validate" =>
        \A v \in Verdicts :
            /\ (TooManyPositional /\ ~AcceptsAnyPositional(call.func))
                  => v = Err("TypeError", "too_many_positional")
            /\ v.why = "too_many_positional"
                  => (TooManyPositional /\ ~AcceptsAnyPositional(call.func))
            /\ (TooManyPositional /\ AcceptsAnyPositional(call.func))
                  => v.cls # "IndexError"

\* the parameter the positional argument at position i is bound to
BoundTo(i) == PositionalParams(call.func)[i].name

\* the hinted parameters the call supplies, positionally or by keyword, with
\* a value that does not match the hint
Mismatched ==
    {p \in DOMAIN TypeHints(call.func) :
        \/ \E i \in DOMAIN call.args :
              /\ i <= Len(PositionalParams(call.func))
              /\ BoundTo(i) = p
              /\ ~validate_type(call.args[i], TypeHints(call.func)[p])
        \/ \E i \in DOMAIN call.kwargs :
              /\ call.kwargs[i][1] = p
              /\ ~validate_type(call.kwargs[i][2], TypeHints(call.func)[p])}

\* C26: the validator with type hints rejects every call that supplies,
\* positionally or by keyword, a value that does not match the hint of its
\* parameter, whatever the callable, variadic or not: the call is not
\* accepted, and unless it is rejected for its surplus positional arguments
\* or for an unknown keyword the error is the TypeError of a mismatched
\* parameter.
C26_TypeMismatchRejected ==
    (pc = "validate" /\ verdict.standalone # Pending /\ Mismatched # {}) =>
        /\ verdict.standalone # NoErr
        /\ verdict.standalone.why \notin {"too_many_positional", "unknown_keyword"}
              => /\ verdict.standalone.cls = "TypeError"
                 /\ verdict.standalone.why = "argument_type"
                 /\ verdict.standalone.what \in Mismatched

\* the same for the callables without variadic parameter
TypeMismatchRejectedUnlessVariadic ==
    (pc = "validate" /\ verdict.standalone # Pending /\ Mismatched # {}
        /\ ~AcceptsAnyPositional(call.func) /\ ~AcceptsAnyKeyword(call.func))
      => /\ verdict.standalone # NoErr
         /\ verdict.standalone.why \notin {"too_many_positional", "unknown_keyword"}
               => verdict.standalone = ErrOn("TypeError", "argument_type", verdict.standalone.what)
                  /\ verdict.standalone.what \in Mismatched

\* the position of x in the sequence s
PositionIn(s, x) == CHOOSE i \in DOMAIN s : s[i] = x

\* the rows of the external group e that the table has
RowsInTable(e) == Range(groupby.groups[e].index) \cap RowIds(frame)

\* the external groups that share a row with the table, in their order
NonEmptyExternal ==
    SelectSeq([e \in DOMAIN groupby.groups |-> e], LAMBDA e : RowsInTable(e) # {})

\* C27: with a caller-built grouping object the engine is handed one group
\* for each external group that shares a row with the table, in the order
\* of the external groups and under their names, and none for the others;
\* each group holds exactly the rows of its external group that the table
\* has, once each, in the order they have in the external group.
C27_ExternalGroupsIntersected ==
    (groupby.kind = "external" /\ pc \in {"groups", "checks", "done"}) =>
        /\ Len(groups) = Len(NonEmptyExternal)
        /\ \A g \in 1..Len(groups) :
              LET e == NonEmptyExternal[g]
                  index == groups[g].index
              IN /\ groups[g].name = groupby.groups[e].name
                 /\ Range(index) = RowsInTable(e)
                 /\ Len(index) = Cardinality(RowsInTable(e))
                 /\ Len(index) > 0
                 /\ \A a, b \in DOMAIN index :
                       a < b => PositionIn(groupby.groups[e].index, index[a])
                                  < PositionIn(groupby.groups[e].index, index[b])

\* a finished run on a table of rows 1, 2, 3 with the external groups
\* x = (3, 1), y = (5), z = (2, 4): the engine processed x = (3, 1) and
\* z = (2) and no group for y
C27_Witness ==
    /\ pc = "done"
    /\ groupby.kind = "external"
    /\ Len(groupby.groups) = 3
    /\ RowIds(frame) = {1, 2, 3}
    /\ Len(groups) = 2
    /\ groups[1] = Group("x", <<3, 1>>)
    /\ groups[2] = Group("z", <<2>>)
    /\ CheckEvents # {}

\* no row identifier is in two groups
GroupsDisjoint ==
    \A g, h \in 1..Len(groups) :
        g # h => Range(groups[g].index) \cap Range(groups[h].index) = {}

\* the engine has just taken the group gi and copied its working mask
GroupJustTaken == pc = "checks" /\ j = 1

\* C28: the groups being pairwise disjoint, the working mask copied at the
\* start of a group is true for every row of the group, in the three return
\* methods: the global mask is only ever false for rows of the groups
\* already taken, so it changes no cell of the Flag Matrix.
C28_GroupMaskStartsAllTrue ==
    (GroupsDisjoint /\ pc \in {"groups", "checks"}) =>
        /\ GroupJustTaken =>
              /\ DOMAIN group_mask = Range(groups[gi].index)
              /\ \A r \in DOMAIN group_mask : group_mask[r]
        /\ \A g \in (gi + 1)..Len(groups) : \A r \in Range(groups[g].index) : mask[r]
        /\ \A r \in DOMAIN mask : ~mask[r] => \E g \in 1..gi : r \in Range(groups[g].index)

\* the second of two groups has just been taken in a "passed" run, after a
\* row of the first group was deactivated in the global mask
C28_Witness ==
    /\ GroupJustTaken
    /\ gi = 2
    /\ return_method = "passed"
    /\ Len(groups[2].index) = 2
    /\ \E r \in Range(groups[1].index) : ~mask[r]
    /\ \A r \in Range(groups[2].index) : group_mask[r]

\* the rows of the table that are in no group
Ungrouped == RowIds(frame) \ UNION {Range(groups[g].index) : g \in 1..Len(groups)}

\* the rows the invocation e handed to the callable, in any argument
RowsPassed(e) ==
    Range(trace[e].index)
        \cup UNION {Range(trace[e].kw[k].index) : k \in DOMAIN trace[e].kw}

\* C29: once the groups are known, a row of the table that is in no group
\* is passed to no check callable, in no argument, and holds untested in
\* every column of the Flag Matrix and of the returned value, in every
\* return method.
C29_UngroupedRowsStayUntested ==
    pc \in {"groups", "checks", "done"} =>
        \A r \in Ungrouped :
            /\ \A e \in CheckEvents : r \notin RowsPassed(e)
            /\ \A c \in DOMAIN results.cell[r] : results.cell[r][c] = untested
            /\ (pc = "done" /\ ret.kind = "frame") =>
                  \A c \in DOMAIN ret.value.cell[r] : ret.value.cell[r][c] = untested

\* a returned Flag Matrix of three checks, with return_method "all", for a
\* table of which the caller's grouping covers row 2 only: the rows 1 and 3
\* are untested in every column while row 2 has its flags
C29_Witness ==
    /\ pc = "done"
    /\ return_method = "all"
    /\ groupby.kind = "external"
    /\ Ungrouped = {1, 3}
    /\ Len(qc_inputs) = 3
    /\ \A c \in DOMAIN ret.value.cell[1] : ret.value.cell[1][c] = untested
    /\ \A c \in DOMAIN ret.value.cell[2] : ret.value.cell[2][c] # untested

\* the declared parameters descriptor d supplies both positionally and by
\* keyword
SuppliedTwice(d, isCheck) == BoundPositionally(d, isCheck) \cap SuppliedKeywords(d)

\* the callable of a descriptor the validator accepted was invoked and
\* could not bind its arguments
BindingFailed == pc = "error" /\ err.why = "multiple_values"

\* C30: a descriptor, preprocessing entry or check, whose resolved call the
\* validator accepted supplies no declared parameter both positionally and
\* by keyword, and the invocation of its callable never fails on the
\* binding of its arguments.
C30_AcceptedCallBinds ==
    /\ \A i \in 1..pi : SuppliedTwice(preproc_dict.entries[i], FALSE) = {}
    /\ \A i \in 1..qi : SuppliedTwice(qc_dict.entries[i], TRUE) = {}
    /\ ~BindingFailed

\* the validator accepted a preprocessing entry that gives "value" by
\* "inputs" and by "names", and the invocation failed
AcceptedThenBindingFailed ==
    /\ BindingFailed
    /\ ~InCheckConfiguration
    /\ PreprocDescriptorError(preproc_dict.entries[pi + 1], frame) = NoErr
    /\ SuppliedTwice(preproc_dict.entries[pi + 1], FALSE) = {"value"}

\* a check that gives "value" by "names" and by "arguments" was accepted and
\* its invocation failed after an earlier check was invoked
AcceptedThenBindingFailedInCheck ==
    /\ BindingFailed
    /\ InCheckConfiguration
    /\ qi = Len(qc_dict.entries)
    /\ CheckEvents # {}

====
